---- MODULE Spec2Model ----
(***************************************************************************)
(* VNRename: folder-name parsing, candidate scoring and the rename flows   *)
(* of the command-line front-end (main_CLI.py) and the graphical           *)
(* front-end (main_GUI.py).                                                *)
(*                                                                         *)
(* Python strings are modelled as sequences of one-character strings.      *)
(***************************************************************************)
EXTENDS Integers, Sequences, FiniteSets, TLC

(***************************************************************************)
(* Bounds of the model                                                     *)
(***************************************************************************)
\* number of pieces a generated folder name is concatenated from
MaxPieces == 3
\* number of candidates a catalog search answers with
MaxResults == 4
\* number of releases a release lookup answers with
MaxReleases == 2
\* largest value of the "Number of Candidates" spin box that is tried
MaxLimit == 2
\* number of sub-folders of the base directory
MaxFolders == 2
\* number of replacement search terms asked for one folder
MaxPrompts == 2
\* number of option and text edits the user makes in the window
MaxEdits == 1
\* number of rename attempts (clicks on "Rename Folder" that find a name) in a
\* session of the window
MaxRenames == 1

(***************************************************************************)
(* Characters and the str methods the program uses                         *)
(***************************************************************************)
DigitChars == <<"0", "1", "2", "3", "4", "5", "6", "7", "8", "9">>
Digits == {DigitChars[i] : i \in 1..10}
UpperChars == <<"A", "B", "C", "D", "E", "F", "G", "H", "I", "J", "K", "L", "M",
                "N", "O", "P", "Q", "R", "S", "T", "U", "V", "W", "X", "Y", "Z">>
LowerChars == <<"a", "b", "c", "d", "e", "f", "g", "h", "i", "j", "k", "l", "m",
                "n", "o", "p", "q", "r", "s", "t", "u", "v", "w", "x", "y", "z">>
Uppers == {UpperChars[i] : i \in 1..26}
Lowers == {LowerChars[i] : i \in 1..26}
\* str.strip() with no argument removes whitespace; the model's alphabet has
\* the space and the tab
Whitespace == {" ", "\t"}

SetMin(S) == CHOOSE x \in S : \A y \in S : x <= y
SetMax(S) == CHOOSE x \in S : \A y \in S : x >= y

\* str.isdigit(): non-empty and every character a digit
isdigit(s) == Len(s) > 0 /\ \A i \in 1..Len(s) : s[i] \in Digits

\* str.strip()
strip(s) ==
    LET keep == {i \in 1..Len(s) : s[i] \notin Whitespace}
    IN  IF keep = {} THEN <<>> ELSE SubSeq(s, SetMin(keep), SetMax(keep))

\* str.lower(), character by character
lower_char(c) ==
    IF c \in Uppers THEN LowerChars[CHOOSE i \in 1..26 : UpperChars[i] = c] ELSE c
lower(s) == [i \in 1..Len(s) |-> lower_char(s[i])]

\* int() of a string of decimal digits
digit_val(c) == (CHOOSE i \in 1..10 : DigitChars[i] = c) - 1
RECURSIVE int_of(_)
int_of(s) ==
    IF Len(s) = 0 THEN 0
    ELSE 10 * int_of(SubSeq(s, 1, Len(s) - 1)) + digit_val(s[Len(s)])

\* index of the first occurrence of character c in s, 0 when absent
find_char(s, c) ==
    LET at == {i \in 1..Len(s) : s[i] = c}
    IN  IF at = {} THEN 0 ELSE SetMin(at)

\* "c in s" for a one-character c
contains_char(s, c) == find_char(s, c) # 0

\* s.split(c, 1)[0]
split_first(s, c) ==
    IF contains_char(s, c) THEN SubSeq(s, 1, find_char(s, c) - 1) ELSE s

RECURSIVE concat(_)
concat(pieces) ==
    IF Len(pieces) = 0 THEN <<>> ELSE Head(pieces) \o concat(Tail(pieces))

(***************************************************************************)
(* Regular expressions of the parsers                                      *)
(***************************************************************************)
\* re.findall(open (.*?) close, s): the spans between an opening character
\* and the first closing character after it, scanning left to right
RECURSIVE findall_from(_, _, _, _)
findall_from(s, i, open, close) ==
    IF i > Len(s) THEN <<>>
    ELSE IF s[i] # open THEN findall_from(s, i + 1, open, close)
    ELSE LET ends == {j \in (i + 1)..Len(s) : s[j] = close}
         IN  IF ends = {} THEN <<>>
             ELSE <<SubSeq(s, i + 1, SetMin(ends) - 1)>>
                  \o findall_from(s, SetMin(ends) + 1, open, close)
findall(s, open, close) == findall_from(s, 1, open, close)

\* re.sub(open .*? close, '', s): the same spans, delimiters included, removed
RECURSIVE sub_from(_, _, _, _)
sub_from(s, i, open, close) ==
    IF i > Len(s) THEN <<>>
    ELSE IF s[i] # open THEN <<s[i]>> \o sub_from(s, i + 1, open, close)
    ELSE LET ends == {j \in (i + 1)..Len(s) : s[j] = close}
         IN  IF ends = {} THEN SubSeq(s, i, Len(s))
             ELSE sub_from(s, SetMin(ends) + 1, open, close)
re_sub(s, open, close) == sub_from(s, 1, open, close)

(***************************************************************************)
(* parse_bracket_info                                                      *)
(***************************************************************************)
\* variant: the day limit off by one
plausible_date_day30(segment) ==
    LET mm == int_of(SubSeq(segment, 3, 4))
        dd == int_of(SubSeq(segment, 5, 6))
    IN  1 <= mm /\ mm <= 12 /\ 1 <= dd /\ dd <= 30

\* variant: February additionally limited to 29 days
plausible_date_calendar(segment) ==
    LET mm == int_of(SubSeq(segment, 3, 4))
        dd == int_of(SubSeq(segment, 5, 6))
    IN  1 <= mm /\ mm <= 12 /\ 1 <= dd /\ dd <= 31 /\ (mm = 2 => dd <= 29)

\* the plausibility test of a 6-digit segment (month and day ranges)
plausible_date(segment) ==
    LET mm == int_of(SubSeq(segment, 3, 4))
        dd == int_of(SubSeq(segment, 5, 6))
    IN  1 <= mm /\ mm <= 12 /\ 1 <= dd /\ dd <= 31

\* the test that lets a segment be the producer
producer_like(segment) ==
    Len(segment) >= 3 /\ ~(isdigit(segment) /\ Len(segment) > 6)

\* variant: the producer is assigned without testing that it is still unset
bracket_step_overwrite(acc, raw_segment) ==
    LET segment == strip(raw_segment)
    IN  IF isdigit(segment) /\ Len(segment) = 6
        THEN IF plausible_date(segment)
             THEN [date |-> segment, producer |-> acc.producer]
             ELSE acc
        ELSE IF producer_like(segment)
             THEN [date |-> acc.date, producer |-> segment]
             ELSE acc

\* one iteration of the loop over the bracketed segments; acc is the pair
\* (expected_date, expected_producer)
bracket_step(acc, raw_segment) ==
    LET segment == strip(raw_segment)
    IN  IF isdigit(segment) /\ Len(segment) = 6
        THEN IF plausible_date(segment)
             THEN [date |-> segment, producer |-> acc.producer]
             ELSE acc
        ELSE IF producer_like(segment) /\ acc.producer = <<>>
             THEN [date |-> acc.date, producer |-> segment]
             ELSE acc

RECURSIVE bracket_loop(_, _)
bracket_loop(acc, matches) ==
    IF Len(matches) = 0 THEN acc
    ELSE bracket_loop(bracket_step(acc, Head(matches)), Tail(matches))

parse_bracket_info_CLI(folder_name) ==
    bracket_loop([date |-> <<>>, producer |-> <<>>], findall(folder_name, "[", "]"))

\* main_GUI.py has the same loop (its ValueError handler is never entered
\* for ASCII digits)
parse_bracket_info_GUI(folder_name) ==
    bracket_loop([date |-> <<>>, producer |-> <<>>], findall(folder_name, "[", "]"))

(***************************************************************************)
(* parse_folder_name                                                       *)
(***************************************************************************)
strip_spans(folder_name) ==
    strip(re_sub(re_sub(re_sub(folder_name, "[", "]"), "(", ")"), "{", "}"))

parse_folder_name_CLI(folder_name) ==
    LET cleaned == strip_spans(folder_name)
    IN  IF contains_char(cleaned, "+") THEN strip(split_first(cleaned, "+"))
        ELSE cleaned

parse_folder_name_GUI(folder_name) == strip_spans(folder_name)

(***************************************************************************)
(* difflib.SequenceMatcher(None, a, b).ratio()                             *)
(***************************************************************************)
\* length of the common run of a from i and b from j inside the windows
common_run(a, i, ahi, b, j, bhi) ==
    LET room == IF ahi - i < bhi - j THEN ahi - i + 1 ELSE bhi - j + 1
    IN  SetMax({k \in 0..room : \A t \in 0..(k - 1) : a[i + t] = b[j + t]})

\* find_longest_match: the longest matching block of a[alo..ahi] and
\* b[blo..bhi]; of the longest ones the one starting earliest in a, and of
\* those the one starting earliest in b.  Size 0 when nothing matches.
find_longest_match(a, alo, ahi, b, blo, bhi) ==
    LET size(i, j) == common_run(a, i, ahi, b, j, bhi)
        best == SetMax({0} \cup {size(i, j) : i \in alo..ahi, j \in blo..bhi})
    IN  IF best = 0 THEN [i |-> alo, j |-> blo, size |-> 0]
        ELSE LET besti == SetMin({i \in alo..ahi : \E j \in blo..bhi : size(i, j) = best})
                 bestj == SetMin({j \in blo..bhi : size(besti, j) = best})
             IN  [i |-> besti, j |-> bestj, size |-> best]

\* get_matching_blocks: total size of the blocks found by splitting around
\* the longest match and recursing on both sides
RECURSIVE matching_size(_, _, _, _, _, _)
matching_size(a, alo, ahi, b, blo, bhi) ==
    IF alo > ahi \/ blo > bhi THEN 0
    ELSE LET m == find_longest_match(a, alo, ahi, b, blo, bhi)
         IN  IF m.size = 0 THEN 0
             ELSE m.size
                  + matching_size(a, alo, m.i - 1, b, blo, m.j - 1)
                  + matching_size(a, m.i + m.size, ahi, b, m.j + m.size, bhi)

\* Scores are exact fractions n/d with d > 0
Rat(n, d) == [n |-> n, d |-> d]
Half == Rat(1, 2)
rat_ge(x, y) == x.n * y.d >= y.n * x.d
rat_eq(x, y) == x.n * y.d = y.n * x.d
rat_max(x, y) == IF rat_ge(y, x) /\ ~rat_eq(x, y) THEN y ELSE x

\* variant: the matches divided by the length of the first string only
ratio_over_first(a, b) ==
    IF Len(a) = 0 THEN Rat(1, 1)
    ELSE Rat(2 * matching_size(a, 1, Len(a), b, 1, Len(b)), Len(a))

\* ratio(): 2.0 * matches / (len(a) + len(b)), 1.0 for two empty strings
ratio(a, b) ==
    IF Len(a) + Len(b) = 0 THEN Rat(1, 1)
    ELSE Rat(2 * matching_size(a, 1, Len(a), b, 1, Len(b)), Len(a) + Len(b))

\* (x + y + z) / 3
mean3(x, y, z) ==
    Rat(x.n * y.d * z.d + y.n * x.d * z.d + z.n * x.d * y.d, 3 * x.d * y.d * z.d)

(***************************************************************************)
(* format_release_date: strptime("%Y-%m-%d") then strftime("%y%m%d")        *)
(***************************************************************************)
RECURSIVE split_all(_, _)
split_all(s, c) ==
    IF ~contains_char(s, c) THEN <<s>>
    ELSE <<SubSeq(s, 1, find_char(s, c) - 1)>>
         \o split_all(SubSeq(s, find_char(s, c) + 1, Len(s)), c)

\* %m and %d accept one or two digits (%d also a blank and a digit)
month_field(f) == isdigit(f) /\ Len(f) \in {1, 2} /\ int_of(f) \in 1..12
day_field(f) ==
    \/ isdigit(f) /\ Len(f) \in {1, 2} /\ int_of(f) \in 1..31
    \/ Len(f) = 2 /\ f[1] = " " /\ f[2] \in Digits \ {"0"}
day_value(f) == IF f[1] = " " THEN digit_val(f[2]) ELSE int_of(f)

is_leap(y) == y % 4 = 0 /\ (y % 100 # 0 \/ y % 400 = 0)
days_in_month(y, mo) ==
    IF mo = 2 THEN (IF is_leap(y) THEN 29 ELSE 28)
    ELSE IF mo \in {4, 6, 9, 11} THEN 30 ELSE 31

\* strptime succeeds
strptime_ok(s) ==
    LET f == split_all(s, "-")
    IN  /\ Len(f) = 3
        /\ isdigit(f[1]) /\ Len(f[1]) = 4 /\ int_of(f[1]) >= 1
        /\ month_field(f[2])
        /\ day_field(f[3])
        /\ day_value(f[3]) <= days_in_month(int_of(f[1]), int_of(f[2]))

two_digits(n) == <<DigitChars[(n \div 10) + 1], DigitChars[(n % 10) + 1]>>
Unknown == <<"U", "n", "k", "n", "o", "w", "n">>

format_release_date(release_date_str) ==
    IF strptime_ok(release_date_str)
    THEN LET f == split_all(release_date_str, "-")
         IN  two_digits(int_of(f[1]) % 100) \o two_digits(int_of(f[2]))
             \o two_digits(day_value(f[3]))
    ELSE Unknown

\* normalize_string: re.sub(r'\W+', '', s).lower()
is_word_char(c) == c \in Digits \/ c \in Uppers \/ c \in Lowers \/ c = "_"
normalize_string(s) == lower(SelectSeq(s, is_word_char))

(***************************************************************************)
(* Catalog responses                                                        *)
(***************************************************************************)
\* An HTTP exchange: status is "neterr" (requests.post raises), "http_error"
\* (raise_for_status raises), "bad_json" (response.json() raises) or "ok".
\* The decoded body has a shape ("null", "number", "array", "object"); an
\* object holds at most one of the keys the code looks for (key), whose value
\* is a list or not (is_list); items are the elements of that list, or of the
\* array itself.
Body(shape, key, is_list, items) ==
    [shape |-> shape, key |-> key, is_list |-> is_list, items |-> items]
Response(status, body) == [status |-> status, body |-> body]
NullBody == Body("null", "none", FALSE, <<>>)
ResultsBody(items) == Body("object", "results", TRUE, items)
FailedResponses ==
    {Response(st, NullBody) : st \in {"neterr", "http_error", "bad_json"}}

\* what a function call produced: a returned value or a raised exception
Returned(v) == [raised |-> FALSE, value |-> v]
Raised == [raised |-> TRUE, value |-> <<>>]

(***************************************************************************)
(* get_vn_candidates                                                        *)
(***************************************************************************)
\* the slice seq[:n]
take(seq, n) == SubSeq(seq, 1, IF n < Len(seq) THEN n ELSE Len(seq))

\* variant: ascending order (reverse=True forgotten)
RECURSIVE sort_ascending(_)
sort_ascending(seq) ==
    LET RECURSIVE ins(_, _)
        ins(sorted, x) ==
            IF Len(sorted) = 0 THEN <<x>>
            ELSE IF rat_ge(x.conf, Head(sorted).conf)
                 THEN <<Head(sorted)>> \o ins(Tail(sorted), x)
                 ELSE <<x>> \o sorted
    IN  IF Len(seq) = 0 THEN <<>>
        ELSE ins(sort_ascending(SubSeq(seq, 1, Len(seq) - 1)), seq[Len(seq)])

\* list.sort(key=confidence, reverse=True): stable, descending
RECURSIVE sort_by_conf(_)
sort_by_conf(seq) ==
    LET RECURSIVE ins(_, _)
        ins(sorted, x) ==
            IF Len(sorted) = 0 THEN <<x>>
            ELSE IF rat_ge(Head(sorted).conf, x.conf)
                 THEN <<Head(sorted)>> \o ins(Tail(sorted), x)
                 ELSE <<x>> \o sorted
    IN  IF Len(seq) = 0 THEN <<>>
        ELSE ins(sort_by_conf(SubSeq(seq, 1, Len(seq) - 1)), seq[Len(seq)])

\* a scored candidate; the three sub-scores are kept beside the composite
Scored(cand, t, d, p) ==
    [cand |-> cand, title_conf |-> t, date_conf |-> d, prod_conf |-> p,
     conf |-> mean3(t, d, p)]

\* main_CLI.py, loop body of get_vn_candidates
score_CLI(candidate, search_query, expected_date, expected_producer) ==
    LET title_conf == ratio(lower(search_query), lower(candidate.title))
        candidate_date == IF candidate.released # <<>>
                          THEN format_release_date(candidate.released) ELSE <<>>
        date_conf == IF expected_date # <<>> /\ candidate_date # <<>>
                     THEN ratio(expected_date, candidate_date) ELSE Half
        candidate_producer == IF Len(candidate.developers) > 0
                              THEN candidate.developers[1] ELSE <<>>
        prod_conf == IF expected_producer # <<>> /\ candidate_producer # <<>>
                     THEN ratio(lower(expected_producer), lower(candidate_producer))
                     ELSE Half
    IN  Scored(candidate, title_conf, date_conf, prod_conf)

\* the candidates are returned three at most
CLI_LIMIT == 3

get_vn_candidates_CLI(search_query, expected_date, expected_producer, response) ==
    IF response.status # "ok" THEN Returned(<<>>)
    ELSE IF response.body.shape \in {"null", "number"} THEN Raised
    ELSE LET data == response.body
             candidates == IF data.shape = "object" /\ data.key = "results" /\ data.is_list
                           THEN data.items ELSE <<>>
             candidates_with_conf ==
                 [i \in 1..Len(candidates) |->
                     score_CLI(candidates[i], search_query, expected_date, expected_producer)]
         IN  Returned(take(sort_by_conf(candidates_with_conf), CLI_LIMIT))

\* _post of main_GUI.py: the decoded body, or None after any exception
post_failed(response) == response.status # "ok"

\* truth value of a decoded body
truthy(data) ==
    CASE data.shape = "null" -> FALSE
      [] data.shape = "number" -> TRUE
      [] data.shape = "array" -> Len(data.items) > 0
      [] OTHER -> data.key # "none"

\* maximum of the title similarities over cand["titles"], starting from 0.0
RECURSIVE max_title_sim(_, _, _)
max_title_sim(sim_jp, query, titles) ==
    IF Len(titles) = 0 THEN sim_jp
    ELSE max_title_sim(rat_max(sim_jp, ratio(lower(query), lower(Head(titles).title))),
                       query, Tail(titles))

\* main_GUI.py, loop body of get_vn_candidates
score_GUI(cand, search_query, expected_date, expected_producer) ==
    LET sim_romaji == ratio(lower(search_query), lower(cand.title))
        sim_jp == max_title_sim(Rat(0, 1), search_query, cand.titles)
        title_sim == rat_max(sim_romaji, sim_jp)
        rel == cand.released
        norm == IF Len(expected_date) = 6 /\ isdigit(expected_date)
                THEN <<"2", "0">> \o SubSeq(expected_date, 1, 2) \o <<"-">>
                     \o SubSeq(expected_date, 3, 4) \o <<"-">> \o SubSeq(expected_date, 5, 6)
                ELSE expected_date
        date_sim == IF expected_date # <<>> /\ rel # <<>> THEN ratio(norm, rel) ELSE Half
        devname == IF Len(cand.developers) > 0 THEN cand.developers[1] ELSE <<>>
        dev_sim == IF expected_producer # <<>> /\ devname # <<>>
                   THEN ratio(normalize_string(expected_producer), normalize_string(devname))
                   ELSE Half
    IN  Scored(cand, title_sim, date_sim, dev_sim)

get_vn_candidates_GUI(search_query, expected_date, expected_producer, candidate_limit, response) ==
    IF post_failed(response) \/ ~truthy(response.body) THEN Returned(<<>>)
    ELSE IF response.body.shape # "object" THEN Raised
    ELSE LET data == response.body
         IN  IF ~(data.key = "results" /\ data.is_list) THEN Returned(<<>>)
             ELSE LET results ==
                          [i \in 1..Len(data.items) |->
                              score_GUI(data.items[i], search_query, expected_date, expected_producer)]
                  IN  Returned(take(sort_by_conf(results), candidate_limit))

(***************************************************************************)
(* search_release                                                           *)
(***************************************************************************)
\* the first release flagged official, else the first release
\* the selection without the test of the official flag
select_release_first(releases) == releases[1]

select_release(releases) ==
    LET official == {i \in 1..Len(releases) : releases[i].official}
    IN  IF official # {} THEN releases[SetMin(official)] ELSE releases[1]

\* main_CLI.py: None is the empty sequence, a release a one-element sequence
search_release_CLI(response) ==
    IF response.status # "ok" THEN Returned(<<>>)
    ELSE LET data == response.body
             releases ==
                 IF data.shape = "array" THEN data.items
                 ELSE IF data.shape = "object"
                         /\ data.key \in {"result", "results", "releases"} /\ data.is_list
                      THEN data.items
                      ELSE <<>>
         IN  IF Len(releases) = 0 THEN Returned(<<>>)
             ELSE Returned(<<select_release(releases)>>)

\* main_GUI.py: one pass of the loop over the two spellings of the id;
\* "miss" when the pass falls through to the next spelling
release_attempt_GUI(response) ==
    IF post_failed(response) \/ ~truthy(response.body)
    THEN [raised |-> FALSE, hit |-> FALSE, value |-> <<>>]
    ELSE IF response.body.shape # "object"
    THEN [raised |-> TRUE, hit |-> FALSE, value |-> <<>>]
    ELSE LET data == response.body
         IN  IF data.key = "results" /\ data.is_list /\ Len(data.items) > 0
             THEN [raised |-> FALSE, hit |-> TRUE, value |-> <<select_release(data.items)>>]
             ELSE [raised |-> FALSE, hit |-> FALSE, value |-> <<>>]

search_release_GUI(response1, response2) ==
    LET first == release_attempt_GUI(response1)
        second == release_attempt_GUI(response2)
    IN  IF first.raised THEN Raised
        ELSE IF first.hit THEN Returned(first.value)
        ELSE IF second.raised THEN Raised
        ELSE Returned(second.value)

(***************************************************************************)
(* Content flags                                                            *)
(***************************************************************************)
\* Characters outside ASCII are written by their code point
BlackStar == "U+2605"
WhiteStar == "U+2606"
OstSymbol == "U+266B"

\* "sub in s" for strings
contains(s, sub) ==
    \E i \in 1..(Len(s) - Len(sub) + 1) : SubSeq(s, i, i + Len(sub) - 1) = sub

OstKeywords ==
    {<<"o", "s", "t">>,
     <<"s", "o", "u", "n", "d", "t", "r", "a", "c", "k">>,
     <<"U+30AA", "U+30EA", "U+30B8", "U+30CA", "U+30EB", "U+30B5", "U+30A6",
       "U+30F3", "U+30C9", "U+30C8", "U+30E9", "U+30C3", "U+30AF">>}
FandiscKeywords ==
    {<<"f", "a", "n", "d", "i", "s", "c">>,
     <<"f", "a", "n", " ", "d", "i", "s", "c">>,
     <<"U+30D5", "U+30A1", "U+30F3", "U+30C7", "U+30A3", "U+30B9", "U+30AF">>}

has_keyword(text, keywords) == \E kw \in keywords : contains(lower(text), kw)

\* a directory listing of one folder: the file names, or an OSError
Listing(ok, names) == [ok |-> ok, names |-> names]

\* detect_ost(folder_path, folder_name, release_info)
detect_ost(listing, folder, release_info) ==
    \/ contains_char(folder, OstSymbol)
    \/ has_keyword(folder, OstKeywords)
    \/ Len(release_info) > 0 /\ has_keyword(release_info[1].title, OstKeywords)
    \/ listing.ok /\ \E i \in 1..Len(listing.names) : has_keyword(listing.names[i], OstKeywords)

\* detect_fandisc_api(release_info, folder_name)
detect_fandisc_api(release_info, folder) ==
    \/ Len(release_info) > 0 /\ has_keyword(release_info[1].title, FandiscKeywords)
    \/ has_keyword(folder, FandiscKeywords)

\* detect_fandisc_physical(folder_path)
detect_fandisc_physical(listing) ==
    listing.ok /\ \E i \in 1..Len(listing.names) : has_keyword(listing.names[i], FandiscKeywords)

\* the marker with the physical detection ignored
fandisc_flag_unconfirmed(api_has_fandisc, physical_fandisc) ==
    IF api_has_fandisc THEN <<WhiteStar>> ELSE <<>>

\* main(): the fandisc marker
fandisc_flag_CLI(api_has_fandisc, physical_fandisc) ==
    IF api_has_fandisc
    THEN (IF physical_fandisc THEN <<BlackStar>> ELSE <<WhiteStar>>)
    ELSE <<>>

\* main(): a marker appended to the flags the user typed
add_flag(optional_flags, flag) ==
    IF optional_flags # <<>>
    THEN (IF contains(optional_flags, flag) THEN optional_flags
          ELSE optional_flags \o <<",", " ">> \o flag)
    ELSE flag

\* main(): optional_flags from user_flags and the detections
optional_flags_CLI(user_flags, folder, release_info, listing) ==
    LET fandisc_flag == fandisc_flag_CLI(detect_fandisc_api(release_info, folder),
                                         detect_fandisc_physical(listing))
        with_fandisc == IF fandisc_flag # <<>> THEN add_flag(user_flags, fandisc_flag)
                        ELSE user_flags
    IN  IF detect_ost(listing, folder, release_info)
        THEN add_flag(with_fandisc, <<OstSymbol>>)
        ELSE with_fandisc

(***************************************************************************)
(* suggest_new_folder_name                                                  *)
(***************************************************************************)
\* str() of a natural number
RECURSIVE int_str(_)
int_str(n) ==
    IF n < 10 THEN <<DigitChars[n + 1]>>
    ELSE int_str(n \div 10) \o <<DigitChars[(n % 10) + 1]>>

UnknownProducer ==
    <<"U", "n", "k", "n", "o", "w", "n", " ", "P", "r", "o", "d", "u", "c", "e", "r">>

\* the producer with the developer flag ignored
resolve_producer_first(vn_info, release_info) ==
    IF Len(release_info) > 0 /\ Len(release_info[1].producers) > 0
    THEN release_info[1].producers[1].name
    ELSE IF Len(vn_info.developers) > 0 THEN vn_info.developers[1]
    ELSE UnknownProducer

\* producer: the first release producer flagged developer, else the first
\* release producer, else the first developer of the VN
resolve_producer(vn_info, release_info) ==
    LET producers == IF Len(release_info) > 0 THEN release_info[1].producers ELSE <<>>
        devs == {i \in 1..Len(producers) : producers[i].developer}
    IN  IF Len(producers) > 0
        THEN (IF devs # {} THEN producers[SetMin(devs)].name ELSE producers[1].name)
        ELSE IF Len(vn_info.developers) > 0 THEN vn_info.developers[1]
        ELSE UnknownProducer

\* the date with the VN's date taken before the release's
resolve_date_vn_first(vn_info, release_info) ==
    LET release_date_str ==
            IF vn_info.released # <<>> THEN vn_info.released
            ELSE IF Len(release_info) > 0 THEN release_info[1].released ELSE <<>>
    IN  IF release_date_str # <<>> THEN format_release_date(release_date_str) ELSE Unknown

\* date: the release's, else the VN's, formatted; "Unknown" when there is none
resolve_date(vn_info, release_info) ==
    LET release_date_str ==
            IF Len(release_info) > 0 /\ release_info[1].released # <<>>
            THEN release_info[1].released ELSE vn_info.released
    IN  IF release_date_str # <<>> THEN format_release_date(release_date_str) ELSE Unknown

length_token(vn_info) ==
    IF Len(vn_info.length) > 0
    THEN <<"[", "L">> \o int_str(vn_info.length[1]) \o <<"]">>
    ELSE <<>>

\* the default template with the date written without its brackets
default_name_bare_date(producer, formatted_date, length_str, title, flags, tags) ==
    <<"[">> \o producer \o <<"]", " ">> \o formatted_date \o <<" ">> \o length_str
    \o <<" ">> \o title
    \o (IF flags # <<>> THEN <<" ", "{">> \o flags \o <<"}">> ELSE <<>>)
    \o (IF tags # <<>> THEN <<" ", "(">> \o tags \o <<")">> ELSE <<>>)

\* the default template with the flags and tags parts always written
default_name_all_parts(producer, formatted_date, length_str, title, flags, tags) ==
    <<"[">> \o producer \o <<"]", "[">> \o formatted_date \o <<"]">> \o length_str
    \o <<" ">> \o title \o <<" ", "{">> \o flags \o <<"}">> \o <<" ", "(">> \o tags \o <<")">>

\* the default template
default_name(producer, formatted_date, length_str, title, flags, tags) ==
    <<"[">> \o producer \o <<"]", "[">> \o formatted_date \o <<"]">> \o length_str
    \o <<" ">> \o title
    \o (IF flags # <<>> THEN <<" ", "{">> \o flags \o <<"}">> ELSE <<>>)
    \o (IF tags # <<>> THEN <<" ", "(">> \o tags \o <<")">> ELSE <<>>)

(***************************************************************************)
(* str.format with the six keyword arguments of the synthesizer            *)
(***************************************************************************)
producer_key == <<"p", "r", "o", "d", "u", "c", "e", "r">>
release_date_key == <<"r", "e", "l", "e", "a", "s", "e", "_", "d", "a", "t", "e">>
length_key == <<"l", "e", "n", "g", "t", "h">>
title_key == <<"t", "i", "t", "l", "e">>
flags_key == <<"f", "l", "a", "g", "s">>
tags_key == <<"t", "a", "g", "s">>
FieldNames == {producer_key, release_date_key, length_key, title_key, flags_key, tags_key}

field_value(name, v) ==
    CASE name = producer_key -> v.producer
      [] name = release_date_key -> v.release_date
      [] name = length_key -> v.length
      [] name = title_key -> v.title
      [] name = flags_key -> v.flags
      [] OTHER -> v.tags

\* what a call that formats a name produced: the text, or the exception
\* raised with the key it names
Formatted(text) == [error |-> "none", key |-> <<>>, value |-> text]
FormatError(kind, key) == [error |-> kind, key |-> key, value |-> <<>>]

\* the template is read from left to right: "{{" and "}}" are literal braces,
\* "{name}" is replaced by the keyword argument of that name, and the first
\* field that cannot be replaced raises.  Conversions, format specifications
\* and attribute or index lookups inside a field are not modelled.
RECURSIVE str_format(_, _, _, _)
str_format(t, i, v, acc) ==
    IF i > Len(t) THEN Formatted(acc)
    ELSE IF t[i] = "}"
    THEN (IF i < Len(t) /\ t[i + 1] = "}" THEN str_format(t, i + 2, v, Append(acc, "}"))
          ELSE FormatError("ValueError", <<>>))
    ELSE IF t[i] # "{" THEN str_format(t, i + 1, v, Append(acc, t[i]))
    ELSE IF i = Len(t) THEN FormatError("ValueError", <<>>)
    ELSE IF t[i + 1] = "{" THEN str_format(t, i + 2, v, Append(acc, "{"))
    ELSE LET closes == {j \in (i + 1)..Len(t) : t[j] = "}"}
         IN  IF closes = {} THEN FormatError("ValueError", <<>>)
             ELSE LET name == SubSeq(t, i + 1, SetMin(closes) - 1)
                  IN  IF contains_char(name, "{") THEN FormatError("ValueError", <<>>)
                      ELSE IF name = <<>> \/ isdigit(name)
                      THEN FormatError("IndexError", <<>>)
                      ELSE IF name \notin FieldNames THEN FormatError("KeyError", name)
                      ELSE str_format(t, SetMin(closes) + 1, v, acc \o field_value(name, v))

\* main_CLI.py: custom_template is empty for None
suggest_new_folder_name_CLI(vn_info, release_info, optional_flags, optional_tags, custom_template) ==
    LET v == [producer |-> resolve_producer(vn_info, release_info),
              release_date |-> resolve_date(vn_info, release_info),
              length |-> length_token(vn_info),
              title |-> vn_info.title,
              flags |-> strip(optional_flags),
              tags |-> optional_tags]
    IN  IF custom_template # <<>>
        THEN str_format(custom_template, 1, v, <<>>)
        ELSE Formatted(default_name(v.producer, v.release_date, v.length, v.title,
                                    v.flags, v.tags))

(***************************************************************************)
(* main_GUI.py: the template editor and suggest_new_folder_name             *)
(***************************************************************************)
\* the items of CustomTemplateEditor in their initial order, all checked
DefaultCandidateCount == 5

TemplateTokens == <<producer_key, release_date_key, length_key, title_key, flags_key, tags_key>>
InitialTemplate == [i \in 1..6 |-> [token |-> TemplateTokens[i], checked |-> TRUE]]
\* the items after the user unchecked every one of them, and only the title
NoneChecked == [i \in 1..6 |-> [token |-> TemplateTokens[i], checked |-> FALSE]]
TitleUnchecked ==
    [i \in 1..6 |-> [token |-> TemplateTokens[i], checked |-> TemplateTokens[i] # title_key]]
TokenConfigs == {InitialTemplate, NoneChecked, TitleUnchecked}

\* getTemplate(): the part of the template an item stands for
template_part(t) ==
    CASE t \in {producer_key, release_date_key} -> <<"[", "{">> \o t \o <<"}", "]">>
      [] t = tags_key -> <<"(", "{">> \o t \o <<"}", ")">>
      [] OTHER -> <<"{">> \o t \o <<"}">>

\* " ".join(parts)
RECURSIVE join_parts(_)
join_parts(parts) ==
    IF Len(parts) = 0 THEN <<>>
    ELSE IF Len(parts) = 1 THEN parts[1]
    ELSE parts[1] \o <<" ">> \o join_parts(Tail(parts))

\* getTemplate(): the parts of the checked items in list order
getTemplate(template) ==
    LET on == SelectSeq(template, LAMBDA it : it.checked)
    IN  join_parts([i \in 1..Len(on) |-> template_part(on[i].token)])

\* re.sub(r"\(\s*\)", "", name)
RECURSIVE drop_empty_parens(_, _)
drop_empty_parens(s, i) ==
    IF i > Len(s) THEN <<>>
    ELSE IF s[i] # "(" THEN <<s[i]>> \o drop_empty_parens(s, i + 1)
    ELSE LET closes == {j \in (i + 1)..Len(s) :
                           s[j] = ")" /\ \A k \in (i + 1)..(j - 1) : s[k] \in Whitespace}
         IN  IF closes = {} THEN <<s[i]>> \o drop_empty_parens(s, i + 1)
             ELSE drop_empty_parens(s, SetMin(closes) + 1)

\* update_suggested_name: the title used when "Use Japanese Title" is checked
title_override_GUI(vn_info) ==
    LET mains == {i \in 1..Len(vn_info.titles) : vn_info.titles[i].main}
        jp == IF mains # {} THEN vn_info.titles[SetMin(mains)].title
              ELSE IF Len(vn_info.titles) > 0 THEN vn_info.titles[1].title
              ELSE <<>>
    IN  IF jp # <<>> THEN jp ELSE vn_info.title

\* ", ".join(flags)
RECURSIVE join_flags(_)
join_flags(flags) ==
    IF Len(flags) = 0 THEN <<>>
    ELSE IF Len(flags) = 1 THEN <<flags[1]>>
    ELSE <<flags[1], ",", " ">> \o join_flags(Tail(flags))

\* the flag check boxes in the order of the dictionary they are built from
FlagSymbols == <<BlackStar, WhiteStar, OstSymbol>>
checked_flags(boxes) == SelectSeq(FlagSymbols, LAMBDA sym : sym \in boxes)

\* f"Error: missing placeholder {e}": the repr of the key, for a key without
\* quotes or backslashes
MissingPlaceholder(key) ==
    <<"E", "r", "r", "o", "r", ":", " ", "m", "i", "s", "s", "i", "n", "g", " ",
      "p", "l", "a", "c", "e", "h", "o", "l", "d", "e", "r", " ", "'">> \o key \o <<"'">>

\* main_GUI.py: custom_template and title_override are empty for None
suggest_new_folder_name_GUI(vn_info, release_info, optional_flags, optional_tags, custom_template, title_override) ==
    LET v == [producer |-> resolve_producer(vn_info, release_info),
              release_date |-> resolve_date(vn_info, release_info),
              length |-> length_token(vn_info),
              title |-> IF title_override # <<>> THEN title_override ELSE vn_info.title,
              flags |-> strip(optional_flags),
              tags |-> strip(optional_tags)]
        out == str_format(custom_template, 1, v, <<>>)
    IN  IF custom_template # <<>> /\ strip(custom_template) # <<>>
        THEN (IF out.error = "none"
              THEN Formatted(strip(drop_empty_parens(out.value, 1)))
              ELSE IF out.error = "KeyError"
              THEN Formatted(MissingPlaceholder(out.key))
              ELSE out)
        ELSE Formatted(default_name(v.producer, v.release_date, v.length, v.title,
                                    v.flags, v.tags))

(***************************************************************************)
(* Folder names the parsers are applied to                                  *)
(***************************************************************************)
Bracketed(inner) == <<"[">> \o inner \o <<"]">>

\* 6-digit segments around the month and day limits, and the two dates
\* 231215 and 250230
DatePieces ==
    {Bracketed(<<"2", "3">> \o m \o <<"1", "5">>) :
        m \in {<<"0", "0">>, <<"0", "1">>, <<"1", "2">>, <<"1", "3">>}}
    \cup {Bracketed(<<"2", "3", "1", "2">> \o d) :
        d \in {<<"0", "0">>, <<"0", "1">>, <<"3", "1">>, <<"3", "2">>}}
    \cup {Bracketed(<<"2", "5", "0", "2", "3", "0">>)}

\* other bracketed segments: producers, a short one, digit strings of other
\* lengths, segments with surrounding blanks
OtherBracketPieces ==
    {Bracketed(<<"K", "e", "y">>),
     Bracketed(<<" ", "V", "N", "D", "S", " ">>),
     Bracketed(<<"a", "b">>),
     Bracketed(<<"1", "2", "3", "4", "5">>),
     Bracketed(<<"1", "2", "3", "4", "5", "6", "7">>),
     Bracketed(<<" ", "2", "3", "0", "1", "0", "1", " ">>)}

\* text outside square brackets
TextPieces ==
    {<<" ", "F", "o", "o">>, <<" ", "B", "a", "r", " ">>, <<"+">>,
     <<"(", "1", "8", "+", ")">>, <<"{", "x", "}">>, <<"\t">>}

PiecePool == DatePieces \cup OtherBracketPieces \cup TextPieces

RECURSIVE SeqsUpTo(_, _)
SeqsUpTo(S, n) ==
    IF n = 0 THEN {<<>>}
    ELSE LET shorter == SeqsUpTo(S, n - 1)
         IN  shorter \cup {Append(q, x) : q \in {r \in shorter : Len(r) = n - 1}, x \in S}

(***************************************************************************)
(* Catalog entries the searches answer with                                 *)
(***************************************************************************)
Candidate(id, title, titles, released, developers, length) ==
    [id |-> id, title |-> title, titles |-> titles, released |-> released,
     developers |-> developers, length |-> length]
Release(title, released, producers, official) ==
    [title |-> title, released |-> released, producers |-> producers,
     official |-> official]

\* released is empty for a null date; length is empty for a null length
CandFooBar ==
    Candidate(<<"v", "1">>, <<"F", "o", "o", " ", "B", "a", "r">>,
              <<[title |-> <<"f", "o", "o">>, main |-> TRUE]>>,
              <<"2", "0", "2", "3", "-", "1", "2", "-", "1", "5">>,
              <<<<"K", "e", "y">>>>, <<2>>)
CandFoo ==
    Candidate(<<"2">>, <<"F", "o", "o">>, <<>>, <<"T", "B", "A">>, <<>>, <<>>)
CandBaz ==
    Candidate(<<"v", "3">>, <<"B", "a", "z">>,
              <<[title |-> <<"B", "a", "r">>, main |-> FALSE]>>,
              <<>>, <<<<"K", "-", "E", "Y">>>>, <<1>>)
CandPool == {CandFooBar, CandFoo, CandBaz}

RelOfficial ==
    Release(<<"F", "o", "o">>, <<"2", "0", "2", "3", "-", "1", "2", "-", "1", "5">>,
            <<[name |-> <<"P", "u", "b">>, developer |-> FALSE],
              [name |-> <<"K", "e", "y">>, developer |-> TRUE]>>, TRUE)
RelUnofficial ==
    Release(<<"F", "o", "o", " ", "O", "S", "T">>, <<>>,
            <<[name |-> <<"P", "u", "b">>, developer |-> FALSE]>>, FALSE)
RelBare ==
    Release(<<"B", "a", "z">>, <<"2", "0", "2", "4">>, <<>>, FALSE)
ReleasePool == {RelOfficial, RelUnofficial, RelBare}

\* what a search is asked
Queries == {<<"f", "o", "o", " ", "b", "a", "r">>, <<"B", "a", "z">>}
ExpectedDates == {<<>>, <<"2", "3", "1", "2", "1", "5">>, <<"2", "3", "1", "2", "2", "5">>}
ExpectedProducers == {<<>>, <<"K", "e", "y">>}

\* bodies that are not an object with a "results" list
OddBodies(item) ==
    {NullBody,
     Body("number", "none", FALSE, <<>>),
     Body("array", "none", TRUE, <<>>),
     Body("array", "none", TRUE, <<item>>),
     Body("object", "none", FALSE, <<>>),
     Body("object", "results", FALSE, <<>>)}

SearchResponses ==
    FailedResponses
    \cup {Response("ok", b) : b \in OddBodies(CandFoo)}
    \cup {Response("ok", ResultsBody(items)) : items \in SeqsUpTo(CandPool, MaxResults)}

ReleaseResponses ==
    FailedResponses
    \cup {Response("ok", b) : b \in OddBodies(RelBare)}
    \cup {Response("ok", Body("object", k, TRUE, items)) :
            k \in {"results", "result"}, items \in SeqsUpTo(ReleasePool, MaxReleases)}

(***************************************************************************)
(* State                                                                   *)
(***************************************************************************)
VARIABLES
    mode,          \* which program runs: "parse", "catalog", "cli" or "gui"
    raw_pieces,    \* parse: the pieces the folder name is made of
    folder_name,   \* parse: the folder name handed to the parsers
    hints_done,    \* parse: parse_bracket_info has returned
    hints_CLI,     \* parse: (expected_date, expected_producer) of main_CLI.py
    hints_GUI,     \* parse: (expected_date, expected_producer) of main_GUI.py
    title_done,    \* parse: parse_folder_name has returned
    title_CLI,     \* parse: title of main_CLI.py
    title_GUI,     \* parse: title of main_GUI.py
    task,          \* catalog: "search" or "release", the call that is made
    sc_query,      \* catalog: search_query
    sc_date,       \* catalog: expected_date
    sc_producer,   \* catalog: expected_producer
    sc_limit,      \* catalog: candidate_limit (main_GUI.py)
    sc_response,   \* catalog: the answers of the service, in call order
    sc_done,       \* catalog: the front-ends whose function has returned
    sc_out_CLI,    \* catalog: outcome of the main_CLI.py function
    sc_out_GUI,    \* catalog: outcome of the main_GUI.py function
    base_dir,      \* what the base directory is: "missing", "file" or "dir"
    fs,            \* the names of the sub-folders of the base directory
    search_log,    \* the catalog searches issued for the folder in hand
    rename_log,    \* the os.rename calls made for the folder in hand
    confirmation,  \* the rename question asked for the folder in hand, answered
    cli_pc,        \* main(): the statement it is blocked at
    folders,       \* main(): the listing it iterates over
    idx,           \* main(): position of the loop in folders
    typed,         \* main(): the line last read by input()
    extracted_title,  \* main(): local
    expected,      \* main(): locals expected_date and expected_producer
    search_query,  \* main(): local
    candidates,    \* main(): local
    prompts,       \* main(): replacement terms asked for this folder
    vn_info,       \* main() local and MainWindow attribute, empty before a
                   \* candidate is selected
    release_info,  \* main() local and MainWindow attribute, empty for None
    optional_flags,   \* main(): local
    new_name,      \* main(): local
    gui_pc,        \* MainWindow: the dialog the event loop is blocked in, or "idle"
    frame,         \* MainWindow: locals of the handler that opened the dialog
    directory,     \* MainWindow: self.directory is set
    folder_list,   \* MainWindow: the items of the folder list
    current_folder_name,  \* MainWindow: empty while the attribute is not set
    title_edit,    \* MainWindow: text of the search title field
    candidate_count_spin, \* MainWindow: value of the spin box
    candidate_list,       \* MainWindow: the items of the candidate list
    suggested_name_edit,  \* MainWindow: text of the suggested name field
    flag_checkboxes,      \* MainWindow: the flag symbols that are checked
    tags_edit,     \* MainWindow: text of the tags field
    use_jp_checkbox,      \* MainWindow: checked or not
    shortcut_checkbox,    \* MainWindow: checked or not
    template_editor,      \* MainWindow: the items of the template editor
    edits,         \* MainWindow: option and text edits made by the user
    renames,       \* MainWindow: folders renamed in this session
    vn_selected_for,      \* history: the folder in hand when vn_info was stored
    sn_task,       \* naming: "flags", "name" or "none"
    sn_folder,     \* naming: the folder name the flags are detected for
    sn_listing,    \* naming: what os.listdir gives for that folder
    sn_vn,         \* naming: vn_info
    sn_release,    \* naming: release_info, empty for None
    sn_flags,      \* naming: the flags typed by the user
    sn_tags,       \* naming: optional_tags
    sn_template,   \* naming: custom_template, empty for None
    sn_override,   \* naming: title_override, empty for None
    sn_done,       \* naming: the calls that have returned
    sn_marker,     \* naming: main()'s fandisc_flag
    sn_optional_flags,    \* naming: main()'s optional_flags
    sn_name_CLI,   \* naming: outcome of main_CLI.suggest_new_folder_name
    sn_name_GUI,   \* naming: outcome of main_GUI.suggest_new_folder_name
    sn_hints_CLI,  \* naming: main_CLI.parse_bracket_info of the name made
    sn_hints_GUI,  \* naming: main_GUI.parse_bracket_info of the name made
    sn_suggested_name_edit    \* naming: text of the suggested name field

parseVars == <<raw_pieces, folder_name, hints_done, hints_CLI, hints_GUI,
               title_done, title_CLI, title_GUI>>
catalogVars == <<task, sc_query, sc_date, sc_producer, sc_limit, sc_response,
                 sc_done, sc_out_CLI, sc_out_GUI>>
envVars == <<base_dir, fs, search_log, rename_log, confirmation>>
cliLocals == <<extracted_title, expected, search_query, candidates, prompts,
               vn_info, release_info, optional_flags, new_name>>
cliVars == <<cli_pc, folders, idx, typed, cliLocals>>
cliRest == <<cli_pc, folders, idx, typed, extracted_title, expected, search_query,
             candidates, prompts, optional_flags, new_name>>
guiWidgets == <<candidate_count_spin, flag_checkboxes, tags_edit, use_jp_checkbox,
                shortcut_checkbox, template_editor>>
guiVars == <<gui_pc, frame, directory, folder_list, current_folder_name, title_edit,
             candidate_list, suggested_name_edit, guiWidgets, edits, renames,
             vn_selected_for>>
namingInputs == <<sn_task, sn_folder, sn_listing, sn_vn, sn_release, sn_flags, sn_tags,
                  sn_template, sn_override>>
namingVars == <<namingInputs, sn_done, sn_marker, sn_optional_flags, sn_name_CLI,
                sn_name_GUI, sn_hints_CLI, sn_hints_GUI, sn_suggested_name_edit>>
vars == <<mode, parseVars, catalogVars, envVars, cliVars, guiVars, namingVars>>

NoHints == [date |-> <<>>, producer |-> <<>>]

ParseIdle ==
    /\ raw_pieces = <<>>
    /\ folder_name = <<>>
    /\ hints_done = FALSE
    /\ hints_CLI = NoHints
    /\ hints_GUI = NoHints
    /\ title_done = FALSE
    /\ title_CLI = <<>>
    /\ title_GUI = <<>>

CatalogIdle ==
    /\ task = "none"
    /\ sc_query = <<>>
    /\ sc_date = <<>>
    /\ sc_producer = <<>>
    /\ sc_limit = 1
    /\ sc_response = <<>>
    /\ sc_done = {}
    /\ sc_out_CLI = Returned(<<>>)
    /\ sc_out_GUI = Returned(<<>>)

EnvIdle ==
    /\ base_dir = "dir"
    /\ fs = {}
    /\ search_log = <<>>
    /\ rename_log = <<>>
    /\ confirmation = <<>>

CliLocalsIdle ==
    /\ extracted_title = <<>>
    /\ expected = NoHints
    /\ search_query = <<>>
    /\ candidates = <<>>
    /\ prompts = 0
    /\ vn_info = <<>>
    /\ release_info = <<>>
    /\ optional_flags = <<>>
    /\ new_name = <<>>

CliIdle ==
    /\ cli_pc = "off"
    /\ folders = <<>>
    /\ idx = 0
    /\ typed = <<>>
    /\ CliLocalsIdle

NoFrame == [query |-> <<>>, hints |-> NoHints, limit |-> 0, new_name |-> <<>>]

NamingIdle ==
    /\ sn_task = "none"
    /\ sn_folder = <<>>
    /\ sn_listing = Listing(TRUE, <<>>)
    /\ sn_vn = <<>>
    /\ sn_release = <<>>
    /\ sn_flags = <<>>
    /\ sn_tags = <<>>
    /\ sn_template = <<>>
    /\ sn_override = <<>>
    /\ sn_done = {}
    /\ sn_marker = <<>>
    /\ sn_optional_flags = <<>>
    /\ sn_name_CLI = Formatted(<<>>)
    /\ sn_name_GUI = Formatted(<<>>)
    /\ sn_hints_CLI = NoHints
    /\ sn_hints_GUI = NoHints
    /\ sn_suggested_name_edit = <<>>

GuiWidgetsInitial ==
    /\ candidate_count_spin = DefaultCandidateCount
    /\ flag_checkboxes = {}
    /\ tags_edit = <<>>
    /\ use_jp_checkbox = FALSE
    /\ shortcut_checkbox = FALSE
    /\ template_editor = InitialTemplate

GuiIdle ==
    /\ gui_pc = "off"
    /\ frame = NoFrame
    /\ directory = FALSE
    /\ folder_list = <<>>
    /\ current_folder_name = <<>>
    /\ title_edit = <<>>
    /\ candidate_list = <<>>
    /\ suggested_name_edit = <<>>
    /\ GuiWidgetsInitial
    /\ edits = 0
    /\ renames = 0
    /\ vn_selected_for = <<>>

(***************************************************************************)
(* The parsers applied to one folder name                                   *)
(***************************************************************************)
InitParse ==
    /\ mode = "parse"
    /\ NamingIdle
    /\ GuiIdle
    /\ CatalogIdle
    /\ EnvIdle
    /\ CliIdle
    /\ raw_pieces \in SeqsUpTo(PiecePool, MaxPieces)
    /\ folder_name = concat(raw_pieces)
    /\ hints_done = FALSE
    /\ hints_CLI = NoHints
    /\ hints_GUI = NoHints
    /\ title_done = FALSE
    /\ title_CLI = <<>>
    /\ title_GUI = <<>>

ParseBracketInfo ==
    /\ mode = "parse"
    /\ ~hints_done
    /\ hints_done' = TRUE
    /\ hints_CLI' = parse_bracket_info_CLI(folder_name)
    /\ hints_GUI' = parse_bracket_info_GUI(folder_name)
    /\ UNCHANGED <<mode, raw_pieces, folder_name, title_done, title_CLI, title_GUI>>
    /\ UNCHANGED <<catalogVars, envVars, cliVars>>
    /\ UNCHANGED <<guiVars, namingVars>>

ParseFolderName ==
    /\ mode = "parse"
    /\ ~title_done
    /\ title_done' = TRUE
    /\ title_CLI' = parse_folder_name_CLI(folder_name)
    /\ title_GUI' = parse_folder_name_GUI(folder_name)
    /\ UNCHANGED <<mode, raw_pieces, folder_name, hints_done, hints_CLI, hints_GUI>>
    /\ UNCHANGED <<catalogVars, envVars, cliVars>>
    /\ UNCHANGED <<guiVars, namingVars>>

NextParse == ParseBracketInfo \/ ParseFolderName

SpecParse == InitParse /\ [][NextParse]_vars

(***************************************************************************)
(* The catalog functions applied to one answer of the service               *)
(***************************************************************************)
InitCatalog ==
    /\ mode = "catalog"
    /\ NamingIdle
    /\ GuiIdle
    /\ ParseIdle
    /\ EnvIdle
    /\ CliIdle
    /\ sc_done = {}
    /\ sc_out_CLI = Returned(<<>>)
    /\ sc_out_GUI = Returned(<<>>)
    /\ \/ /\ task = "search"
          /\ sc_query \in Queries
          /\ sc_date \in ExpectedDates
          /\ sc_producer \in ExpectedProducers
          /\ sc_limit \in 1..MaxLimit
          /\ \E r \in SearchResponses : sc_response = <<r>>
       \/ /\ task = "release"
          /\ sc_query = <<>>
          /\ sc_date = <<>>
          /\ sc_producer = <<>>
          /\ sc_limit = 1
          /\ \E r1 \in ReleaseResponses, r2 \in ReleaseResponses : sc_response = <<r1, r2>>

SearchCLI ==
    /\ mode = "catalog" /\ task = "search" /\ "cli" \notin sc_done
    /\ sc_out_CLI' = get_vn_candidates_CLI(sc_query, sc_date, sc_producer, sc_response[1])
    /\ sc_done' = sc_done \cup {"cli"}
    /\ UNCHANGED <<envVars, cliVars>>
    /\ UNCHANGED <<mode, parseVars, task, sc_query, sc_date, sc_producer, sc_limit,
                   sc_response, sc_out_GUI>>
    /\ UNCHANGED <<guiVars, namingVars>>

SearchGUI ==
    /\ mode = "catalog" /\ task = "search" /\ "gui" \notin sc_done
    /\ sc_out_GUI' = get_vn_candidates_GUI(sc_query, sc_date, sc_producer, sc_limit,
                                           sc_response[1])
    /\ sc_done' = sc_done \cup {"gui"}
    /\ UNCHANGED <<envVars, cliVars>>
    /\ UNCHANGED <<mode, parseVars, task, sc_query, sc_date, sc_producer, sc_limit,
                   sc_response, sc_out_CLI>>
    /\ UNCHANGED <<guiVars, namingVars>>

ReleaseCLI ==
    /\ mode = "catalog" /\ task = "release" /\ "cli" \notin sc_done
    /\ sc_out_CLI' = search_release_CLI(sc_response[1])
    /\ sc_done' = sc_done \cup {"cli"}
    /\ UNCHANGED <<envVars, cliVars>>
    /\ UNCHANGED <<mode, parseVars, task, sc_query, sc_date, sc_producer, sc_limit,
                   sc_response, sc_out_GUI>>
    /\ UNCHANGED <<guiVars, namingVars>>

ReleaseGUI ==
    /\ mode = "catalog" /\ task = "release" /\ "gui" \notin sc_done
    /\ sc_out_GUI' = search_release_GUI(sc_response[1], sc_response[2])
    /\ sc_done' = sc_done \cup {"gui"}
    /\ UNCHANGED <<envVars, cliVars>>
    /\ UNCHANGED <<mode, parseVars, task, sc_query, sc_date, sc_producer, sc_limit,
                   sc_response, sc_out_CLI>>
    /\ UNCHANGED <<guiVars, namingVars>>

NextCatalog == SearchCLI \/ SearchGUI \/ ReleaseCLI \/ ReleaseGUI

SpecCatalog == InitCatalog /\ [][NextCatalog]_vars

(***************************************************************************)
(* What the front-ends meet: folders, answers of the service, user input    *)
(***************************************************************************)
FolderKeyFooBar == <<"[", "K", "e", "y", "]", "F", "o", "o", " ", "B", "a", "r">>
FolderDateOnly == <<"[", "2", "3", "1", "2", "1", "5", "]">>
FolderFooTabBar == <<"F", "o", "o", "\t", " ", "B", "a", "r">>
FolderPool == {FolderKeyFooBar, FolderDateOnly, FolderFooTabBar}

\* the orderings os.listdir may give a set of names in
RECURSIVE Orderings(_)
Orderings(S) ==
    IF S = {} THEN {<<>>}
    ELSE UNION {{<<x>> \o rest : rest \in Orderings(S \ {x})} : x \in S}

FrontEndSearchResponses ==
    {Response("neterr", NullBody),
     Response("ok", NullBody),
     Response("ok", ResultsBody(<<>>)),
     Response("ok", ResultsBody(<<CandFooBar>>)),
     Response("ok", ResultsBody(<<CandFoo, CandBaz>>))}

FrontEndReleaseResponses ==
    {Response("neterr", NullBody),
     Response("ok", ResultsBody(<<RelOfficial>>)),
     Response("ok", ResultsBody(<<RelUnofficial, RelBare>>))}

FolderListings ==
    {Listing(FALSE, <<>>), Listing(TRUE, <<<<"F", "a", "n", "D", "i", "s", "c">>>>)}

TermInputs == {<<>>, <<" ">>, <<"B", "a", "z">>}
SelectionInputs == {<<"1">>, <<" ", "2">>, <<"0">>, <<"7">>, <<"x">>, <<"-", "1">>}
FlagInputs == {<<>>, <<"1", "8", "+">>}
TagInputs == {<<>>, <<"R", "o", "m">>}
ChoiceInputs == {<<"y">>, <<" ", "Y">>, <<"n">>, <<>>}

\* one catalog search as the service saw it: found is the number of
\* candidates the caller got back, -1 when the call raised
Searched(site, query, hints, out) ==
    [site |-> site, query |-> query, date |-> hints.date, producer |-> hints.producer,
     found |-> IF out.raised THEN -1 ELSE Len(out.value)]

\* the report with the try block's handler left out
rename_report_uncaught(ok) == IF ok THEN "success" ELSE "raised"

\* os.rename runs in a try block whose handler tells the user of the error
rename_report(ok) == IF ok THEN "success" ELSE "error"

RenameCall(old, new, ok) == [old |-> old, new |-> new, ok |-> ok, said |-> rename_report(ok)]
Asked(old, new, answer) == [old |-> old, new |-> new, answer |-> answer]

(***************************************************************************)
(* main() of main_CLI.py                                                    *)
(***************************************************************************)
\* int(text.strip()): an optional sign and decimal digits, else ValueError
parse_int(text) ==
    LET t == strip(text)
        signed == Len(t) > 0 /\ t[1] \in {"-", "+"}
        digits == IF signed THEN Tail(t) ELSE t
    IN  IF isdigit(digits)
        THEN [ok |-> TRUE,
              value |-> IF signed /\ t[1] = "-" THEN 0 - int_of(digits) ELSE int_of(digits)]
        ELSE [ok |-> FALSE, value |-> 0]

\* variant: the part before the first space is not stripped
shortened_query_unstripped(query) == split_first(query, " ")
\* the shortened query of the automatic retry
shortened_query(query) == strip(split_first(query, " "))

\* variant: the rename goes ahead whatever the answer
confirmed_CLI_any(choice) == TRUE
\* the answer that lets the rename happen
confirmed_CLI(choice) == lower(strip(choice)) = <<"y">>

\* vn_id with the "v" prefix
prefixed_id(id) == IF Len(id) > 0 /\ id[1] # "v" THEN <<"v">> \o id ELSE id

folder == folders[idx]

\* "continue": the loop goes on with the next folder, or main() returns
CliContinue ==
    /\ idx' = idx + 1
    /\ cli_pc' = IF idx + 1 > Len(folders) THEN "done" ELSE "folder"
    /\ extracted_title' = <<>>
    /\ expected' = NoHints
    /\ search_query' = <<>>
    /\ candidates' = <<>>
    /\ prompts' = 0
    /\ vn_info' = <<>>
    /\ release_info' = <<>>
    /\ optional_flags' = <<>>
    /\ new_name' = <<>>

\* an exception nobody catches ends main()
CliCrash ==
    /\ cli_pc' = "crashed"
    /\ UNCHANGED idx

InitCLI ==
    /\ mode = "cli"
    /\ NamingIdle
    /\ GuiIdle
    /\ ParseIdle
    /\ CatalogIdle
    /\ base_dir \in {"missing", "file", "dir"}
    /\ fs \in {S \in SUBSET FolderPool : Cardinality(S) <= MaxFolders}
    /\ base_dir # "dir" => fs = {}
    /\ search_log = <<>>
    /\ rename_log = <<>>
    /\ confirmation = <<>>
    /\ cli_pc = "start"
    /\ folders = <<>>
    /\ idx = 0
    /\ typed = <<>>
    /\ CliLocalsIdle

\* lines 389-399: the base directory is read and listed
CLI_Start ==
    /\ mode = "cli" /\ cli_pc = "start"
    /\ \/ /\ base_dir = "missing"
          /\ cli_pc' = "done"
          /\ UNCHANGED <<folders, idx>>
       \/ /\ base_dir = "file"
          /\ cli_pc' = "crashed"
          /\ UNCHANGED <<folders, idx>>
       \/ /\ base_dir = "dir"
          /\ folders' \in Orderings(fs)
          /\ idx' = 1
          /\ cli_pc' = IF fs = {} THEN "done" ELSE "folder"
    /\ UNCHANGED <<mode, parseVars, catalogVars, envVars, typed, cliLocals>>
    /\ UNCHANGED <<guiVars, namingVars>>

\* lines 402-413: the folder name is parsed.  The logs and the last input
\* line are those of the folder in hand and start empty here.
CLI_Folder ==
    /\ mode = "cli" /\ cli_pc = "folder"
    /\ extracted_title' = parse_folder_name_CLI(folder)
    /\ expected' = parse_bracket_info_CLI(folder)
    /\ search_query' = parse_folder_name_CLI(folder)
    /\ cli_pc' = "search"
    /\ search_log' = <<>>
    /\ rename_log' = <<>>
    /\ confirmation' = <<>>
    /\ typed' = <<>>
    /\ UNCHANGED <<mode, parseVars, catalogVars, base_dir, fs, folders, idx,
                   candidates, prompts, vn_info, release_info, optional_flags, new_name>>
    /\ UNCHANGED <<guiVars, namingVars>>

\* a search call of main() at the given site and what follows it
CliSearch(site, response) ==
    \E out \in {get_vn_candidates_CLI(search_query, expected.date, expected.producer,
                                      response)} :
        /\ search_log' = Append(search_log, Searched(site, search_query, expected, out))
        /\ IF out.raised
           THEN /\ cli_pc' = "crashed"
                /\ UNCHANGED <<candidates, search_query>>
           ELSE /\ candidates' = out.value
                /\ IF Len(out.value) > 0
                   THEN cli_pc' = "select" /\ UNCHANGED search_query
                   ELSE IF site = "first" /\ contains_char(search_query, " ")
                   THEN cli_pc' = "narrow" /\ search_query' = shortened_query(search_query)
                   ELSE cli_pc' = "prompt" /\ UNCHANGED search_query
        /\ UNCHANGED <<mode, parseVars, catalogVars, base_dir, fs, rename_log, confirmation,
                       folders, idx, typed, extracted_title, expected, prompts,
                       vn_info, release_info, optional_flags, new_name>>
        /\ UNCHANGED <<guiVars, namingVars>>

\* lines 415-419: the first search
CLI_Search ==
    /\ mode = "cli" /\ cli_pc = "search"
    /\ \E response \in FrontEndSearchResponses : CliSearch("first", response)

\* line 420: the retry with the shortened query
CLI_Narrow ==
    /\ mode = "cli" /\ cli_pc = "narrow"
    /\ \E response \in FrontEndSearchResponses : CliSearch("narrowed", response)

\* lines 422-428, 430-431: a replacement term is asked
CLI_Prompt ==
    /\ mode = "cli" /\ cli_pc = "prompt"
    /\ \E term \in TermInputs :
        LET new_term == IF term # <<>> THEN term ELSE extracted_title
        IN  /\ typed' = term
            /\ IF strip(new_term) = <<>>
               THEN /\ CliContinue
                    /\ UNCHANGED <<folders, search_log, confirmation>>
               ELSE /\ prompts < MaxPrompts
                    /\ prompts' = prompts + 1
                    /\ search_query' = strip(new_term)
                    /\ cli_pc' = "replace"
                    /\ UNCHANGED <<folders, idx, search_log, confirmation, extracted_title,
                                   expected, candidates, vn_info, release_info,
                                   optional_flags, new_name>>
    /\ UNCHANGED <<mode, parseVars, catalogVars, base_dir, fs, rename_log>>
    /\ UNCHANGED <<guiVars, namingVars>>

\* line 429: the search with the replacement term
CLI_Replace ==
    /\ mode = "cli" /\ cli_pc = "replace"
    /\ \E response \in FrontEndSearchResponses : CliSearch("replacement", response)

\* lines 433-459: the candidates are listed and one is selected
CLI_Select ==
    /\ mode = "cli" /\ cli_pc = "select"
    /\ \E text \in SelectionInputs :
        LET selection == parse_int(text)
            n == Len(candidates)
        IN  /\ typed' = text
            /\ IF ~selection.ok \/ selection.value = 0 \/ selection.value > n
               THEN /\ CliContinue
                    /\ UNCHANGED <<folders, search_log, confirmation>>
               ELSE IF selection.value - 1 < 0 - n
               THEN /\ CliCrash
                    /\ UNCHANGED <<folders, search_log, confirmation, cliLocals>>
               ELSE /\ vn_info' = <<candidates[IF selection.value >= 1 THEN selection.value
                                               ELSE n + selection.value].cand>>
                    /\ cli_pc' = IF vn_info'[1].id # <<>> THEN "release" ELSE "flags"
                    /\ UNCHANGED <<folders, idx, search_log, confirmation, extracted_title,
                                   expected, search_query, candidates, prompts,
                                   release_info, optional_flags, new_name>>
    /\ UNCHANGED <<mode, parseVars, catalogVars, base_dir, fs, rename_log>>
    /\ UNCHANGED <<guiVars, namingVars>>

\* line 460: the release lookup
CLI_Release ==
    /\ mode = "cli" /\ cli_pc = "release"
    /\ \E out \in {search_release_CLI(response) : response \in FrontEndReleaseResponses} :
        release_info' = out.value
    /\ cli_pc' = "flags"
    /\ UNCHANGED <<mode, parseVars, catalogVars, envVars, folders, idx, typed,
                   extracted_title, expected, search_query, candidates, prompts,
                   vn_info, optional_flags, new_name>>
    /\ UNCHANGED <<guiVars, namingVars>>

\* lines 464-497: the flags are read and the detections are added
CLI_Flags ==
    /\ mode = "cli" /\ cli_pc = "flags"
    /\ \E text \in FlagInputs, listing \in FolderListings :
        /\ typed' = text
        /\ optional_flags' = optional_flags_CLI(strip(text), folder, release_info, listing)
    /\ cli_pc' = "tags"
    /\ UNCHANGED <<mode, parseVars, catalogVars, envVars, folders, idx,
                   extracted_title, expected, search_query, candidates, prompts,
                   vn_info, release_info, new_name>>
    /\ UNCHANGED <<guiVars, namingVars>>

\* lines 499-504: the tags are read and the new name is suggested
CLI_Tags ==
    /\ mode = "cli" /\ cli_pc = "tags"
    /\ \E text \in TagInputs :
        /\ typed' = text
        /\ new_name' = suggest_new_folder_name_CLI(vn_info[1], release_info, optional_flags,
                                                   strip(text), <<>>).value
    /\ cli_pc' = "confirm"
    /\ UNCHANGED <<mode, parseVars, catalogVars, envVars, folders, idx,
                   extracted_title, expected, search_query, candidates, prompts,
                   vn_info, release_info, optional_flags>>
    /\ UNCHANGED <<guiVars, namingVars>>

\* lines 506-507, 515-516: the rename question is answered
CLI_Confirm ==
    /\ mode = "cli" /\ cli_pc = "confirm"
    /\ \E choice \in ChoiceInputs :
        /\ typed' = choice
        /\ confirmation' = <<Asked(folder, new_name, choice)>>
        /\ IF confirmed_CLI(choice)
           THEN /\ cli_pc' = "rename"
                /\ UNCHANGED <<folders, idx, cliLocals>>
           ELSE /\ CliContinue
                /\ UNCHANGED <<folders>>
    /\ UNCHANGED <<mode, parseVars, catalogVars, base_dir, fs, search_log, rename_log>>
    /\ UNCHANGED <<guiVars, namingVars>>

\* lines 508-514: os.rename succeeds or raises, and the loop goes on.  main()
\* never lists the base directory again, so fs stays the directory as it
\* was listed and the call is kept in rename_log.
CLI_Rename ==
    /\ mode = "cli" /\ cli_pc = "rename"
    /\ \E ok \in BOOLEAN :
        /\ rename_log' = Append(rename_log, RenameCall(folder, new_name, ok))
        /\ IF rename_report(ok) = "raised"
           THEN CliCrash /\ UNCHANGED cliLocals
           ELSE CliContinue
    /\ UNCHANGED <<mode, parseVars, catalogVars, base_dir, fs, search_log, confirmation,
                   folders, typed>>
    /\ UNCHANGED <<guiVars, namingVars>>

NextCLI ==
    \/ CLI_Start \/ CLI_Folder \/ CLI_Search \/ CLI_Narrow \/ CLI_Prompt
    \/ CLI_Replace \/ CLI_Select \/ CLI_Release \/ CLI_Flags \/ CLI_Tags
    \/ CLI_Confirm \/ CLI_Rename

SpecCLI == InitCLI /\ [][NextCLI]_vars

(***************************************************************************)
(* MainWindow of main_GUI.py                                                *)
(***************************************************************************)
\* ord() of a character
ord(c) ==
    CASE c \in Digits -> 48 + digit_val(c)
      [] c \in Uppers -> 64 + (CHOOSE i \in 1..26 : UpperChars[i] = c)
      [] c \in Lowers -> 96 + (CHOOSE i \in 1..26 : LowerChars[i] = c)
      [] c = "\t" -> 9
      [] c = " " -> 32
      [] c = "(" -> 40
      [] c = ")" -> 41
      [] c = "+" -> 43
      [] c = "," -> 44
      [] c = "-" -> 45
      [] c = "[" -> 91
      [] c = "]" -> 93
      [] c = "{" -> 123
      [] c = "}" -> 125
      [] c = BlackStar -> 9733
      [] c = WhiteStar -> 9734
      [] c = OstSymbol -> 9835
      [] OTHER -> 12000

\* a < b for str
str_lt(a, b) ==
    LET differ == {i \in 1..Len(a) : i > Len(b) \/ a[i] # b[i]}
    IN  IF differ = {} THEN Len(a) < Len(b)
        ELSE SetMin(differ) <= Len(b) /\ ord(a[SetMin(differ)]) < ord(b[SetMin(differ)])

\* sorted(folders)
RECURSIVE sorted(_)
sorted(S) ==
    IF S = {} THEN <<>>
    ELSE LET least == CHOOSE x \in S : \A y \in S \ {x} : str_lt(x, y)
         IN  <<least>> \o sorted(S \ {least})

\* the folder list after refresh_folder_list() with self.directory set: the
\* listing raises when the base directory is not a directory
refreshed_folder_list(names) == IF base_dir = "dir" THEN sorted(names) ELSE <<>>

\* the text update_suggested_name() puts in the suggested name field
\* (a template made of the six items always formats)
suggested_name(vn, rel, spin_flags, tags, jp, template) ==
    suggest_new_folder_name_GUI(vn, rel, join_flags(checked_flags(spin_flags)), strip(tags),
                                getTemplate(template),
                                IF jp THEN title_override_GUI(vn) ELSE <<>>).value

TitleInputs == {<<"B", "a", "z">>}
NameInputs == {<<"N", "e", "w">>}
ReplyInputs == {"Yes", "No"}
\* the check boxes and template items the user toggles
ToggledFlags == {BlackStar}
ToggledTokens == {tags_key}

InitGUI ==
    /\ mode = "gui"
    /\ NamingIdle
    /\ ParseIdle
    /\ CatalogIdle
    /\ base_dir \in {"missing", "file", "dir"}
    /\ fs \in {S \in SUBSET FolderPool : Cardinality(S) <= MaxFolders}
    /\ base_dir # "dir" => fs = {}
    /\ search_log = <<>>
    /\ rename_log = <<>>
    /\ confirmation = <<>>
    /\ cli_pc = "off"
    /\ folders = <<>>
    /\ idx = 0
    /\ typed = <<>>
    /\ CliLocalsIdle
    /\ gui_pc = "idle"
    /\ frame = NoFrame
    /\ directory = FALSE
    /\ folder_list = <<>>
    /\ current_folder_name = <<>>
    /\ title_edit = <<>>
    /\ candidate_list = <<>>
    /\ suggested_name_edit = <<>>
    /\ GuiWidgetsInitial
    /\ edits = 0
    /\ renames = 0
    /\ vn_selected_for = <<>>

\* the event loop waits for the user, who ends the session after MaxRenames
\* folders have been renamed
GuiReady == mode = "gui" /\ gui_pc = "idle" /\ renames < MaxRenames

\* what no handler of MainWindow touches
GuiFixed == <<mode, parseVars, catalogVars, base_dir, cliRest, namingVars>>

\* an exception leaves a slot: the application ends
GuiCrash == gui_pc' = "crashed"

\* select_directory: a directory is chosen in the dialog
GUI_SelectDirectory ==
    /\ GuiReady
    /\ directory' = TRUE
    /\ folder_list' = refreshed_folder_list(fs)
    /\ UNCHANGED <<GuiFixed, fs, search_log, rename_log, confirmation, vn_info,
                   release_info, gui_pc, frame, current_folder_name, title_edit,
                   candidate_list, suggested_name_edit, guiWidgets, edits, renames, vn_selected_for>>

\* load_folder_details: an item of the folder list is clicked
GUI_LoadFolderDetails ==
    /\ GuiReady
    /\ \E i \in 1..Len(folder_list) :
        /\ current_folder_name' = <<folder_list[i]>>
        /\ title_edit' = parse_folder_name_GUI(folder_list[i])
    /\ candidate_list' = <<>>
    /\ suggested_name_edit' = <<>>
    /\ UNCHANGED <<GuiFixed, fs, search_log, rename_log, confirmation, vn_info,
                   release_info, gui_pc, frame, directory, folder_list, guiWidgets,
                   edits, renames, vn_selected_for>>

\* the user types in the search title field
GUI_EditTitle ==
    /\ GuiReady
    /\ edits < MaxEdits
    /\ edits' = edits + 1
    /\ title_edit' \in TitleInputs
    /\ UNCHANGED <<GuiFixed, fs, search_log, rename_log, confirmation, vn_info,
                   release_info, gui_pc, frame, directory, folder_list,
                   current_folder_name, candidate_list, suggested_name_edit,
                   guiWidgets, renames, vn_selected_for>>

\* the user sets the number of candidates
GUI_SetCandidateCount ==
    /\ GuiReady
    /\ edits < MaxEdits
    /\ edits' = edits + 1
    /\ candidate_count_spin' \in 1..MaxLimit
    /\ UNCHANGED <<GuiFixed, fs, search_log, rename_log, confirmation, vn_info,
                   release_info, gui_pc, frame, directory, folder_list,
                   current_folder_name, title_edit, candidate_list,
                   suggested_name_edit, flag_checkboxes, tags_edit, use_jp_checkbox,
                   shortcut_checkbox, template_editor, renames, vn_selected_for>>

\* a search call of search_candidates at the given site.  search_log holds
\* the calls of the handler that is running.
GuiSearch(site, query, hints, limit, response) ==
    \E out \in {get_vn_candidates_GUI(query, hints.date, hints.producer, limit, response)} :
        /\ search_log' = Append(search_log, Searched(site, query, hints, out))
        /\ IF out.raised
           THEN /\ GuiCrash
                /\ frame' = NoFrame
                /\ UNCHANGED candidate_list
           ELSE IF Len(out.value) = 0 /\ site = "first" /\ contains_char(query, " ")
           THEN /\ gui_pc' = "narrowing"
                /\ frame' = [NoFrame EXCEPT !.query = shortened_query(query),
                                            !.hints = hints, !.limit = limit]
                /\ UNCHANGED candidate_list
           ELSE /\ gui_pc' = "return"
                /\ frame' = NoFrame
                /\ candidate_list' = out.value
        /\ UNCHANGED <<GuiFixed, fs, rename_log, confirmation, vn_info, release_info,
                       directory, folder_list, current_folder_name, title_edit,
                       suggested_name_edit, guiWidgets, edits, renames, vn_selected_for>>

\* search_candidates, lines 658-667: "Search Candidates" is clicked
GUI_SearchCandidates ==
    /\ GuiReady
    /\ LET query == strip(title_edit)
       IN  IF query = <<>>
           THEN UNCHANGED vars
           ELSE IF current_folder_name = <<>>
           THEN /\ GuiCrash
                /\ UNCHANGED <<GuiFixed, envVars, vn_info, release_info, frame, directory,
                               folder_list, current_folder_name, title_edit,
                               candidate_list, suggested_name_edit, guiWidgets, edits,
                               renames, vn_selected_for>>
           ELSE \E response \in FrontEndSearchResponses :
                    GuiSearch("first", query, parse_bracket_info_GUI(current_folder_name[1]),
                              candidate_count_spin, response)

\* search_candidates, lines 668-680: the notice is closed and the shortened
\* query is searched
GUI_Narrow ==
    /\ mode = "gui" /\ gui_pc = "narrowing"
    /\ \E response \in FrontEndSearchResponses :
        GuiSearch("narrowed", frame.query, frame.hints, frame.limit, response)

\* select_candidate: an item of the candidate list is clicked
GUI_SelectCandidate ==
    /\ GuiReady
    /\ \E i \in 1..Len(candidate_list),
          out \in {search_release_GUI(r1, r2) : r1, r2 \in FrontEndReleaseResponses} :
        LET cand == candidate_list[i].cand
            vn == [cand EXCEPT !.id = prefixed_id(cand.id)]
        IN  /\ vn_info' = <<vn>>
            /\ vn_selected_for' = current_folder_name
            /\ IF out.raised
               THEN UNCHANGED <<release_info, suggested_name_edit>>
               ELSE /\ release_info' = out.value
                    /\ suggested_name_edit' =
                           suggested_name(vn, out.value, flag_checkboxes, tags_edit,
                                          use_jp_checkbox, template_editor)
    /\ UNCHANGED <<GuiFixed, envVars, gui_pc, frame, directory, folder_list,
                   current_folder_name, title_edit, candidate_list, guiWidgets, edits,
                   renames>>

\* update_suggested_name() with the widgets as they are after the change
GuiUpdate ==
    /\ IF vn_info = <<>>
       THEN UNCHANGED suggested_name_edit
       ELSE suggested_name_edit' =
                suggested_name(vn_info[1], release_info, flag_checkboxes', tags_edit',
                               use_jp_checkbox', template_editor')
    /\ edits' = edits + 1
    /\ UNCHANGED <<GuiFixed, envVars, vn_info, release_info, gui_pc, frame, directory,
                   folder_list, current_folder_name, title_edit, candidate_list,
                   candidate_count_spin, shortcut_checkbox, renames, vn_selected_for>>

\* a flag check box is toggled
GUI_ToggleFlag ==
    /\ GuiReady /\ edits < MaxEdits
    /\ \E sym \in ToggledFlags :
        flag_checkboxes' = IF sym \in flag_checkboxes
                           THEN flag_checkboxes \ {sym}
                           ELSE flag_checkboxes \cup {sym}
    /\ UNCHANGED <<tags_edit, use_jp_checkbox, template_editor>>
    /\ GuiUpdate

\* the tags field is edited
GUI_EditTags ==
    /\ GuiReady /\ edits < MaxEdits
    /\ tags_edit' \in TagInputs \ {tags_edit}
    /\ UNCHANGED <<flag_checkboxes, use_jp_checkbox, template_editor>>
    /\ GuiUpdate

\* "Use Japanese (original) Title" is toggled
GUI_ToggleJp ==
    /\ GuiReady /\ edits < MaxEdits
    /\ use_jp_checkbox' = ~use_jp_checkbox
    /\ UNCHANGED <<flag_checkboxes, tags_edit, template_editor>>
    /\ GuiUpdate

\* an item of the template editor is toggled
GUI_ToggleTemplateItem ==
    /\ GuiReady /\ edits < MaxEdits
    /\ \E i \in {k \in 1..Len(template_editor) : template_editor[k].token \in ToggledTokens} :
        template_editor' = [template_editor EXCEPT ![i].checked = ~template_editor[i].checked]
    /\ UNCHANGED <<flag_checkboxes, tags_edit, use_jp_checkbox>>
    /\ GuiUpdate

\* "Generate VNDB Shortcut (.url)" is toggled
GUI_ToggleShortcut ==
    /\ GuiReady
    /\ shortcut_checkbox' = ~shortcut_checkbox
    /\ UNCHANGED <<GuiFixed, envVars, vn_info, release_info, gui_pc, frame, directory, edits,
                   folder_list, current_folder_name, title_edit, candidate_list,
                   suggested_name_edit, candidate_count_spin, flag_checkboxes, tags_edit,
                   use_jp_checkbox, template_editor, renames, vn_selected_for>>

\* the user types in the suggested name field
GUI_EditSuggestedName ==
    /\ GuiReady /\ edits < MaxEdits
    /\ edits' = edits + 1
    /\ suggested_name_edit' \in NameInputs
    /\ UNCHANGED <<GuiFixed, envVars, vn_info, release_info, gui_pc, frame, directory,
                   folder_list, current_folder_name, title_edit, candidate_list,
                   guiWidgets, renames, vn_selected_for>>

\* rename_folder, lines 750-758: "Rename Folder" is clicked and the question
\* is shown
GUI_RenameFolder ==
    /\ GuiReady
    /\ LET name == strip(suggested_name_edit)
       IN  IF name = <<>>
           THEN UNCHANGED vars
           ELSE /\ IF current_folder_name = <<>>
                   THEN GuiCrash /\ UNCHANGED frame
                   ELSE /\ gui_pc' = "confirm"
                        /\ frame' = [NoFrame EXCEPT !.new_name = name]
                /\ UNCHANGED <<GuiFixed, envVars, vn_info, release_info, directory,
                               folder_list, current_folder_name, title_edit,
                               candidate_list, suggested_name_edit, guiWidgets, edits,
                               renames, vn_selected_for>>

\* the answer that lets the rename happen
confirmed_GUI(reply) == reply = "Yes"

\* rename_folder, lines 759-760: the question is answered
GUI_Reply ==
    /\ mode = "gui" /\ gui_pc = "confirm"
    /\ \E reply \in ReplyInputs :
        /\ confirmation' = <<Asked(current_folder_name[1], frame.new_name, reply)>>
        /\ IF confirmed_GUI(reply)
           THEN gui_pc' = "rename" /\ UNCHANGED frame
           ELSE gui_pc' = "return" /\ frame' = NoFrame
    /\ UNCHANGED <<GuiFixed, fs, search_log, rename_log, vn_info, release_info, directory,
                   folder_list, current_folder_name, title_edit, candidate_list,
                   suggested_name_edit, guiWidgets, edits, renames, vn_selected_for>>

\* rename_folder, line 768: self.vn_info["id"] is evaluated when the box is
\* checked; the attribute exists only once a candidate was selected
shortcut_raises(checked, vn) == checked /\ vn = <<>>
\* rename_folder, lines 763-770: what the user is told; the steps after
\* os.rename are inside the same try block
rename_report_GUI(ok, checked, vn) ==
    IF ok /\ shortcut_raises(checked, vn) THEN "success, error" ELSE rename_report(ok)

\* rename_folder, lines 761-770: os.rename succeeds or raises; after a success
\* the folder list is read again and the shortcut is written when asked for
GUI_Rename ==
    /\ mode = "gui" /\ gui_pc = "rename"
    /\ \E ok \in {b \in BOOLEAN : b => current_folder_name[1] \in fs} :
        /\ rename_log' = Append(rename_log,
                                [RenameCall(current_folder_name[1], frame.new_name, ok)
                                 EXCEPT !.said = rename_report_GUI(ok, shortcut_checkbox,
                                                                   vn_info)])
        /\ IF ok
           THEN /\ fs' = (fs \ {current_folder_name[1]}) \cup {frame.new_name}
                /\ folder_list' = refreshed_folder_list(fs')
                /\ renames' = renames + 1
           ELSE UNCHANGED <<fs, folder_list, renames>>
        /\ gui_pc' = IF rename_report_GUI(ok, shortcut_checkbox, vn_info) = "raised"
                     THEN "crashed" ELSE "return"
    /\ frame' = NoFrame
    /\ UNCHANGED <<GuiFixed, search_log, confirmation, vn_info, release_info, directory,
                   current_folder_name, title_edit, candidate_list, suggested_name_edit,
                   guiWidgets, edits, vn_selected_for>>

\* the handler returns to the event loop; the record of its calls goes with it
GUI_Return ==
    /\ mode = "gui" /\ gui_pc = "return"
    /\ gui_pc' = "idle"
    /\ search_log' = <<>>
    /\ rename_log' = <<>>
    /\ confirmation' = <<>>
    /\ UNCHANGED <<GuiFixed, fs, vn_info, release_info, frame, directory, folder_list,
                   current_folder_name, title_edit, candidate_list, suggested_name_edit,
                   guiWidgets, edits, renames, vn_selected_for>>

NextGUI ==
    \/ GUI_SelectDirectory \/ GUI_LoadFolderDetails \/ GUI_EditTitle
    \/ GUI_SetCandidateCount \/ GUI_SearchCandidates \/ GUI_Narrow
    \/ GUI_SelectCandidate \/ GUI_ToggleFlag \/ GUI_EditTags \/ GUI_ToggleJp
    \/ GUI_ToggleTemplateItem \/ GUI_ToggleShortcut \/ GUI_EditSuggestedName
    \/ GUI_RenameFolder \/ GUI_Reply \/ GUI_Rename \/ GUI_Return

SpecGUI == InitGUI /\ [][NextGUI]_vars

(***************************************************************************)
(* Both front-ends                                                          *)
(***************************************************************************)
(***************************************************************************)
(* The flags and the name made for one matched folder                       *)
(***************************************************************************)
CandFate ==
    Candidate(<<"v", "1", "1">>, <<"F", "a", "t", "e", "/", "S", "t", "a", "y">>, <<>>, <<"2", "0", "0", "4", "-", "0", "1", "-", "2", "9">>, <<<<"T", "Y", "P", "E", "-", "M", "O", "O", "N">>>>, <<40>>)
\* a developer name of two characters, a length of two digits and a day
\* that is not in the calendar
CandShort ==
    Candidate(<<"v", "4">>, <<"B", "a", "z">>, <<>>,
              <<"2", "0", "2", "3", "-", "0", "2", "-", "3", "0">>, <<<<"M", "u">>>>, <<10>>)
\* a title that carries a bracketed date
CandDated ==
    Candidate(<<"v", "5">>, <<"B", "a", "z", " ", "[", "2", "4", "0", "1", "0", "1", "]">>,
              <<>>, <<"2", "0", "2", "3", "-", "1", "2", "-", "1", "5">>,
              <<<<"K", "e", "y">>>>, <<>>)
RelFate ==
    Release(<<"F", "a", "t", "e", "/", "S", "t", "a", "y">>, <<"2", "0", "0", "4", "-", "0", "1", "-", "2", "9">>,
            <<[name |-> <<"T", "Y", "P", "E", "-", "M", "O", "O", "N">>, developer |-> TRUE]>>, TRUE)
RelFandisc ==
    Release(<<"F", "o", "o", " ", "F", "A", "N", "D", "I", "S", "C">>, <<>>, <<>>, TRUE)

NamingVNs == CandPool \cup {CandFate, CandShort, CandDated}
NamingReleases == {<<>>} \cup {<<r>> : r \in ReleasePool \cup {RelFate}}
NamingOverrides == {<<>>, <<"f", "o", "o">>}
BogusTemplate == <<"{", "t", "i", "t", "l", "e", "}", " ", "{", "b", "o", "g", "u", "s", "}">>
UnclosedTemplate == <<"{", "t", "i", "t", "l", "e", "}", " ", "{">>
NamingTemplates ==
    {<<>>, BogusTemplate, UnclosedTemplate} \cup {getTemplate(cfg) : cfg \in TokenConfigs}

FolderFanDisc == <<"F", "o", "o", " ", "F", "a", "n", " ", "D", "i", "s", "c">>
FolderOst == <<"F", "o", "o", " ", "O", "S", "T">>
MarkerFolders == {FolderKeyFooBar, FolderFanDisc, FolderOst}
MarkerReleases == {<<>>, <<RelOfficial>>, <<RelUnofficial>>, <<RelFandisc>>}
ListedFanDisc == <<"F", "a", "n", "D", "i", "s", "c">>
ListedReadme == <<"r", "e", "a", "d", "m", "e">>
ListedKatakana == <<"U+30D5", "U+30A1", "U+30F3", "U+30C7", "U+30A3", "U+30B9", "U+30AF">>
MarkerListings ==
    {Listing(FALSE, <<>>), Listing(TRUE, <<>>), Listing(TRUE, <<ListedReadme>>),
     Listing(TRUE, <<ListedReadme, ListedFanDisc>>), Listing(TRUE, <<ListedKatakana>>)}
MarkerFlagInputs == FlagInputs \cup {<<BlackStar>>, <<WhiteStar>>}

\* the suggested name field before the update: empty, or an earlier name
ShownBefore == {<<>>, <<"[", "K", "e", "y", "]", "[", "2", "3", "1", "2", "1", "5", "]", " ", "F", "o", "o">>}

InitNaming ==
    /\ mode = "naming"
    /\ GuiIdle
    /\ ParseIdle
    /\ CatalogIdle
    /\ EnvIdle
    /\ CliIdle
    /\ sn_done = {}
    /\ sn_marker = <<>>
    /\ sn_optional_flags = <<>>
    /\ sn_name_CLI = Formatted(<<>>)
    /\ sn_name_GUI = Formatted(<<>>)
    /\ sn_hints_CLI = NoHints
    /\ sn_hints_GUI = NoHints
    /\ \/ /\ sn_task = "flags"
          /\ sn_folder \in MarkerFolders
          /\ sn_listing \in MarkerListings
          /\ sn_release \in MarkerReleases
          /\ sn_flags \in MarkerFlagInputs
          /\ sn_vn = <<>>
          /\ sn_tags = <<>>
          /\ sn_template = <<>>
          /\ sn_override = <<>>
          /\ sn_suggested_name_edit = <<>>
       \/ /\ sn_task = "name"
          /\ sn_folder = <<>>
          /\ sn_listing = Listing(TRUE, <<>>)
          /\ \E vn \in NamingVNs : sn_vn = <<vn>>
          /\ sn_release \in NamingReleases
          /\ sn_flags \in FlagInputs
          /\ sn_tags \in TagInputs
          /\ sn_template \in NamingTemplates
          /\ sn_override \in NamingOverrides
          /\ sn_suggested_name_edit \in ShownBefore

NamingFixed == <<mode, parseVars, catalogVars, envVars, cliVars, guiVars, namingInputs>>

\* main_CLI.py 466-497: the fandisc marker and the merged flags
DetectFlags ==
    /\ mode = "naming" /\ sn_task = "flags" /\ "flags" \notin sn_done
    /\ sn_marker' = fandisc_flag_CLI(detect_fandisc_api(sn_release, sn_folder),
                                     detect_fandisc_physical(sn_listing))
    /\ sn_optional_flags' = optional_flags_CLI(sn_flags, sn_folder, sn_release, sn_listing)
    /\ sn_done' = sn_done \cup {"flags"}
    /\ UNCHANGED <<NamingFixed, sn_suggested_name_edit, sn_name_CLI, sn_name_GUI, sn_hints_CLI, sn_hints_GUI>>

SynthesizeCLI ==
    /\ mode = "naming" /\ sn_task = "name" /\ "cli" \notin sn_done
    /\ sn_name_CLI' = suggest_new_folder_name_CLI(sn_vn[1], sn_release, sn_flags, sn_tags,
                                                  sn_template)
    /\ sn_done' = sn_done \cup {"cli"}
    /\ UNCHANGED <<NamingFixed, sn_suggested_name_edit, sn_marker, sn_optional_flags, sn_name_GUI, sn_hints_CLI,
                   sn_hints_GUI>>

SynthesizeGUI ==
    /\ mode = "naming" /\ sn_task = "name" /\ "gui" \notin sn_done
    /\ sn_name_GUI' = suggest_new_folder_name_GUI(sn_vn[1], sn_release, sn_flags, sn_tags,
                                                  sn_template, sn_override)
    /\ sn_done' = sn_done \cup {"gui"}
    /\ UNCHANGED <<NamingFixed, sn_suggested_name_edit, sn_marker, sn_optional_flags, sn_name_CLI, sn_hints_CLI,
                   sn_hints_GUI>>

\* the name made is given to a folder and the folder is parsed again
ReparseCLI ==
    /\ mode = "naming" /\ "cli" \in sn_done /\ "reparse_cli" \notin sn_done
    /\ sn_name_CLI.error = "none"
    /\ sn_hints_CLI' = parse_bracket_info_CLI(sn_name_CLI.value)
    /\ sn_done' = sn_done \cup {"reparse_cli"}
    /\ UNCHANGED <<NamingFixed, sn_suggested_name_edit, sn_marker, sn_optional_flags, sn_name_CLI, sn_name_GUI,
                   sn_hints_GUI>>

ReparseGUI ==
    /\ mode = "naming" /\ "gui" \in sn_done /\ "reparse_gui" \notin sn_done
    /\ sn_name_GUI.error = "none"
    /\ sn_hints_GUI' = parse_bracket_info_GUI(sn_name_GUI.value)
    /\ sn_done' = sn_done \cup {"reparse_gui"}
    /\ UNCHANGED <<NamingFixed, sn_suggested_name_edit, sn_marker, sn_optional_flags, sn_name_CLI, sn_name_GUI,
                   sn_hints_CLI>>

\* update_suggested_name, lines 696-703: the string the synthesizer returned
\* is put in the suggested name field; an exception leaves the field as it was
UpdateSuggestedName ==
    /\ mode = "naming" /\ "gui" \in sn_done /\ "shown" \notin sn_done
    /\ sn_suggested_name_edit' =
           IF sn_name_GUI.error = "none" THEN sn_name_GUI.value ELSE sn_suggested_name_edit
    /\ sn_done' = sn_done \cup {"shown"}
    /\ UNCHANGED <<NamingFixed, sn_marker, sn_optional_flags, sn_name_CLI, sn_name_GUI,
                   sn_hints_CLI, sn_hints_GUI>>

NextNaming ==
    \/ DetectFlags \/ SynthesizeCLI \/ SynthesizeGUI \/ ReparseCLI \/ ReparseGUI
    \/ UpdateSuggestedName

SpecNaming == InitNaming /\ [][NextNaming]_vars

Init == InitCLI \/ InitGUI
Next == NextCLI \/ NextGUI
Spec == Init /\ [][Next]_vars

(***************************************************************************)
(* Properties of parse_bracket_info                                         *)
(***************************************************************************)
\* the bracketed segments of the generated name, trimmed, read off the pieces
\* it was built from
IsBracketPiece(p) == Len(p) >= 2 /\ p[1] = "[" /\ p[Len(p)] = "]"
TrimmedInner(p) == strip(SubSeq(p, 2, Len(p) - 1))
BracketPieces == SelectSeq(raw_pieces, IsBracketPiece)
Segment(i) == TrimmedInner(BracketPieces[i])
SegmentIndexes == 1..Len(BracketPieces)

AllDigits(x) == Len(x) > 0 /\ \A i \in 1..Len(x) : x[i] \in Digits
SixDigits(x) == AllDigits(x) /\ Len(x) = 6
MonthOf(x) == 10 * digit_val(x[3]) + digit_val(x[4])
DayOf(x) == 10 * digit_val(x[5]) + digit_val(x[6])
InRangeDate(x) ==
    SixDigits(x) /\ MonthOf(x) \in 1..12 /\ DayOf(x) \in 1..31
InRangeIndexes == {i \in SegmentIndexes : InRangeDate(Segment(i))}
BothHints == {hints_CLI, hints_GUI}

Date231215 == <<"2", "3", "1", "2", "1", "5">>
Date250230 == <<"2", "5", "0", "2", "3", "0">>

\* C7: a 6-digit bracketed segment is accepted as expected_date if and only if
\* its month is in 1..12 and its day is in 1..31: the returned date is always
\* such a segment, and a date is returned exactly when such a segment exists.
C7_DateAcceptedIffInRange ==
    hints_done =>
        \A h \in BothHints :
            /\ (h.date # <<>>) <=> (InRangeIndexes # {})
            /\ h.date # <<>> => \E i \in InRangeIndexes : Segment(i) = h.date

C7_Witness ==
    /\ hints_done
    /\ \E i \in SegmentIndexes : SixDigits(Segment(i)) /\ ~InRangeDate(Segment(i))
    /\ InRangeIndexes # {}
    /\ hints_CLI.date # <<>>
    /\ hints_GUI.date # <<>>

\* C8 as stated: [250230] is rejected (expected_date stays absent) and
\* [231215] is accepted as 231215.
C8_Feb30Rejected ==
    hints_done =>
        \A h \in BothHints :
            /\ raw_pieces = <<Bracketed(Date250230)>> => h.date = <<>>
            /\ raw_pieces = <<Bracketed(Date231215)>> => h.date = Date231215

\* C8 amended: [250230] passes the month and day range tests and is accepted
\* as expected_date 250230; [231215] is accepted as 231215.
C8_Feb30Accepted ==
    hints_done =>
        \A h \in BothHints :
            /\ raw_pieces = <<Bracketed(Date250230)>> => h.date = Date250230
            /\ raw_pieces = <<Bracketed(Date231215)>> => h.date = Date231215

C8_Witness ==
    /\ hints_done
    /\ raw_pieces = <<Bracketed(Date250230)>>
    /\ hints_CLI.date = Date250230
    /\ hints_GUI.date = Date250230

\* C9: with several bracketed segments that are valid 6-digit dates, the first
\* valid one is returned as expected_date and later ones never overwrite it.
C9_FirstValidDateWins ==
    hints_done /\ InRangeIndexes # {} =>
        \A h \in BothHints : h.date = Segment(SetMin(InRangeIndexes))

\* C10: expected_producer is the first bracketed segment that is not exactly 6
\* digits, has trimmed length at least 3 and is not a digit-only string longer
\* than 6 characters (absent when there is none), and a digit-only segment
\* longer than 6 characters is returned neither as producer nor as date.
ProducerIndexes ==
    {i \in SegmentIndexes :
        /\ ~SixDigits(Segment(i))
        /\ Len(Segment(i)) >= 3
        /\ ~(AllDigits(Segment(i)) /\ Len(Segment(i)) > 6)}

C10_FirstProducerWins ==
    hints_done =>
        \A h \in BothHints :
            /\ h.producer = IF ProducerIndexes = {} THEN <<>>
                            ELSE Segment(SetMin(ProducerIndexes))
            /\ ~(AllDigits(h.producer) /\ Len(h.producer) > 6)
            /\ ~(AllDigits(h.date) /\ Len(h.date) > 6)

C10_Witness ==
    /\ hints_done
    /\ \E i, j, k \in SegmentIndexes :
        /\ i < j /\ j < k
        /\ AllDigits(Segment(i)) /\ Len(Segment(i)) > 6
        /\ j \in ProducerIndexes /\ k \in ProducerIndexes
        /\ Segment(j) # Segment(k)
        /\ hints_CLI.producer = Segment(j)
        /\ hints_GUI.producer = Segment(j)

(***************************************************************************)
(* Properties of parse_folder_name                                          *)
(***************************************************************************)
\* the text before the first "+" of s, read off character by character
FirstPlus(s) == SetMin({i \in 1..Len(s) : s[i] = "+"})
BeforeFirstPlus(s) == SubSeq(s, 1, FirstPlus(s) - 1)
BothTitles == {title_CLI, title_GUI}

\* C11: when the name left after the bracketed, parenthesized and braced
\* spans are removed contains "+", the title returned is the trimmed text
\* before the first "+"; the returned title never contains "+".
C11_TitleBeforePlus ==
    title_done =>
        \A t \in BothTitles :
            /\ ~contains_char(t, "+")
            /\ contains_char(strip_spans(folder_name), "+") =>
                   t = strip(BeforeFirstPlus(strip_spans(folder_name)))

(***************************************************************************)
(* Properties of get_vn_candidates and search_release                       *)
(***************************************************************************)
SortedDescending(v) ==
    \A i \in 1..(Len(v) - 1) : rat_ge(v[i].conf, v[i + 1].conf)

\* C2: the candidate list returned by get_vn_candidates is sorted by
\* confidence in descending order and is never longer than the limit (the
\* candidate_limit argument in main_GUI.py, three in main_CLI.py).
C2_SortedAndLimited ==
    task = "search" =>
        /\ "cli" \in sc_done /\ ~sc_out_CLI.raised =>
            /\ SortedDescending(sc_out_CLI.value)
            /\ Len(sc_out_CLI.value) <= 3
        /\ "gui" \in sc_done /\ ~sc_out_GUI.raised =>
            /\ SortedDescending(sc_out_GUI.value)
            /\ Len(sc_out_GUI.value) <= sc_limit

C2_Witness ==
    /\ task = "search"
    /\ sc_done = {"cli", "gui"}
    /\ Len(sc_response[1].body.items) > 3
    /\ Len(sc_out_CLI.value) = 3
    /\ Len(sc_out_GUI.value) = sc_limit
    /\ sc_out_CLI.value[1].cand # sc_response[1].body.items[1]
    /\ sc_out_GUI.value[1].cand # sc_response[1].body.items[1]
    /\ ~rat_eq(sc_out_CLI.value[1].conf, sc_out_CLI.value[3].conf)

\* C5: no failure of the search call or of the release lookup (network
\* error, non-2xx status, malformed or unexpectedly shaped body, empty
\* result) propagates an exception to the caller.
C5_NoExceptionPropagates ==
    /\ "cli" \in sc_done => ~sc_out_CLI.raised
    /\ "gui" \in sc_done => ~sc_out_GUI.raised

InUnit(x) == x.d > 0 /\ 0 <= x.n /\ x.n <= x.d
IsMean(e) ==
    LET t == e.title_conf
        d == e.date_conf
        p == e.prod_conf
    IN  3 * e.conf.n * (t.d * d.d * p.d)
            = e.conf.d * (t.n * d.d * p.d + d.n * t.d * p.d + p.n * t.d * d.d)
ScoredEntries ==
    IF task # "search" THEN {}
    ELSE {sc_out_CLI.value[i] : i \in 1..Len(sc_out_CLI.value)}
         \cup {sc_out_GUI.value[i] : i \in 1..Len(sc_out_GUI.value)}

\* C6: every returned confidence is the unweighted mean of the title, date
\* and producer sub-scores, each of them in [0,1], and so lies in [0,1].
C6_ConfidenceIsMeanInUnit ==
    \A e \in ScoredEntries :
        /\ InUnit(e.title_conf) /\ InUnit(e.date_conf) /\ InUnit(e.prod_conf)
        /\ IsMean(e)
        /\ InUnit(e.conf)

C6_Witness ==
    /\ sc_done = {"cli", "gui"}
    /\ sc_date # <<>> /\ sc_producer # <<>>
    /\ \E k \in {"cli", "gui"} :
        LET out == IF k = "cli" THEN sc_out_CLI ELSE sc_out_GUI
        IN  \E i \in 1..Len(out.value) :
                LET e == out.value[i]
                IN  /\ e.cand.released # <<>> /\ Len(e.cand.developers) > 0
                    /\ 0 < e.title_conf.n /\ e.title_conf.n < e.title_conf.d
                    /\ e.date_conf.n = e.date_conf.d
                    /\ 0 < e.conf.n /\ e.conf.n < e.conf.d

\* the titles of a catalog entry, primary and localized, and the similarity
\* of each with the query, case ignored
AllTitles(cand) == {cand.title} \cup {cand.titles[i].title : i \in 1..Len(cand.titles)}
TitleRatios(cand) == {ratio(lower(sc_query), lower(t)) : t \in AllTitles(cand)}

\* C20: the title sub-score of a returned candidate is the largest
\* case-insensitive similarity ratio between the query and any of the
\* candidate's titles, the primary title and all the localized ones.
C20_TitleScoreIsMaxOverTitles ==
    \A e \in ScoredEntries :
        /\ \E r \in TitleRatios(e.cand) : rat_eq(e.title_conf, r)
        /\ \A r \in TitleRatios(e.cand) : rat_ge(e.title_conf, r)

\* the release dates of the candidates that are calendar dates YYYY-MM-DD,
\* and such a date written as YYMMDD
IsoReleased(cand) == cand.released \in {<<"2", "0", "2", "3", "-", "1", "2", "-", "1", "5">>}
SixOf(iso) == <<iso[3], iso[4], iso[6], iso[7], iso[9], iso[10]>>

\* C21: the date sub-score is 0.5 when the expected date or the candidate's
\* release date is absent; when both are present it is the similarity ratio
\* of the 6-character expected date and the candidate's release date written
\* as YYMMDD, so that equal dates score 1.0.
C21_DateScore ==
    \A e \in ScoredEntries :
        /\ sc_date = <<>> \/ e.cand.released = <<>> => rat_eq(e.date_conf, Rat(1, 2))
        /\ sc_date # <<>> /\ IsoReleased(e.cand) =>
               /\ rat_eq(e.date_conf, ratio(sc_date, SixOf(e.cand.released)))
               /\ sc_date = SixOf(e.cand.released) => rat_eq(e.date_conf, Rat(1, 1))

\* letters and digits only, in lower case; the names of the pools are ASCII
AlnumLower(x) == lower(SelectSeq(x, LAMBDA c : c \in Digits \cup Uppers \cup Lowers))
FirstDeveloper(cand) == IF Len(cand.developers) > 0 THEN cand.developers[1] ELSE <<>>

\* C22: the producer sub-score is 0.5 when the expected producer or the
\* candidate's first developer is absent; when both are present it is the
\* similarity ratio of the two names reduced to their letters and digits in
\* lower case, so that names differing only in case, spacing or punctuation
\* score 1.0.
C22_ProducerScore ==
    \A e \in ScoredEntries :
        /\ sc_producer = <<>> \/ FirstDeveloper(e.cand) = <<>> =>
               rat_eq(e.prod_conf, Rat(1, 2))
        /\ sc_producer # <<>> /\ FirstDeveloper(e.cand) # <<>> =>
               rat_eq(e.prod_conf,
                      ratio(AlnumLower(sc_producer), AlnumLower(FirstDeveloper(e.cand))))

\* the releases a reply carries: the "results" list of an object body of a
\* successful reply, none for a failed request
CarriesResults(response) ==
    /\ response.status = "ok"
    /\ response.body.shape = "object"
    /\ response.body.key = "results"
    /\ response.body.is_list
ReleasesOf(response) == IF CarriesResults(response) THEN response.body.items ELSE <<>>
ReleaseReply(response) == response \in FailedResponses \/ CarriesResults(response)
OfficialIndexes(releases) == {i \in 1..Len(releases) : releases[i].official = TRUE}
Resolved(releases) ==
    IF Len(releases) = 0 THEN Returned(<<>>)
    ELSE IF OfficialIndexes(releases) # {}
    THEN Returned(<<releases[SetMin(OfficialIndexes(releases))]>>)
    ELSE Returned(<<releases[1]>>)
\* main_GUI.py asks twice, for "v<id>" and for "<id>": the releases returned
\* are those of the first reply that carries any
ReleasesOfEither ==
    IF Len(ReleasesOf(sc_response[1])) > 0 THEN ReleasesOf(sc_response[1])
    ELSE ReleasesOf(sc_response[2])

\* C14: search_release returns the first release flagged official when there
\* is one, otherwise the first release returned; when no release is returned
\* (an empty result list or a failed request) it returns None and raises
\* nothing.
C14_OfficialElseFirstElseNone ==
    task = "release" =>
        /\ "cli" \in sc_done /\ ReleaseReply(sc_response[1]) =>
               sc_out_CLI = Resolved(ReleasesOf(sc_response[1]))
        /\ "gui" \in sc_done /\ ReleaseReply(sc_response[1]) /\ ReleaseReply(sc_response[2]) =>
               sc_out_GUI = Resolved(ReleasesOfEither)

C14_Witness ==
    /\ task = "release"
    /\ sc_done = {"cli", "gui"}
    /\ ReleasesOf(sc_response[1]) = <<RelUnofficial, RelOfficial>>
    /\ ReleaseReply(sc_response[2])
    /\ sc_out_CLI = Returned(<<RelOfficial>>)
    /\ sc_out_GUI = Returned(<<RelOfficial>>)

(***************************************************************************)
(* Properties of the flags and of suggest_new_folder_name                   *)
(***************************************************************************)
\* the texts of the pools that name a fandisc, picked by hand
FandiscNamed == {FolderFanDisc, RelFandisc.title, ListedFanDisc, ListedKatakana}
CatalogEvidence ==
    \/ sn_release # <<>> /\ sn_release[1].title \in FandiscNamed
    \/ sn_folder \in FandiscNamed
PhysicalEvidence ==
    sn_listing.ok /\ \E i \in 1..Len(sn_listing.names) : sn_listing.names[i] \in FandiscNamed

\* C13: the fandisc marker is the black star ("confirmed") exactly when the
\* catalog evidence (release title or folder name) and the physical evidence
\* (a file name in the folder) are both true, the white star ("expected")
\* exactly when the catalog evidence is true and the physical evidence false,
\* and there is no marker when the catalog evidence is false.
C13_FandiscMarker ==
    "flags" \in sn_done =>
        /\ sn_marker = <<BlackStar>> <=> CatalogEvidence /\ PhysicalEvidence
        /\ sn_marker = <<WhiteStar>> <=> CatalogEvidence /\ ~PhysicalEvidence
        /\ sn_marker = <<>> <=> ~CatalogEvidence
        /\ (~CatalogEvidence /\ ~contains(sn_flags, <<BlackStar>>)
               /\ ~contains(sn_flags, <<WhiteStar>>)) =>
               /\ ~contains(sn_optional_flags, <<BlackStar>>)
               /\ ~contains(sn_optional_flags, <<WhiteStar>>)

C13_Witness ==
    /\ "flags" \in sn_done
    /\ sn_release = <<RelFandisc>>
    /\ sn_folder = FolderKeyFooBar
    /\ sn_listing = Listing(TRUE, <<ListedReadme, ListedFanDisc>>)
    /\ sn_marker = <<BlackStar>>
    /\ contains(sn_optional_flags, <<BlackStar>>)

\* C24: the flags of a proposed name never hold both the confirmed marker
\* (black star) and the expected marker (white star).
C24_MarkersExclusive ==
    "flags" \in sn_done =>
        ~(contains(sn_optional_flags, <<BlackStar>>) /\ contains(sn_optional_flags, <<WhiteStar>>))

\* the outcomes of the two synthesizers that have returned, each with the
\* title it was given
NameOutcomes ==
    (IF "cli" \in sn_done THEN {[out |-> sn_name_CLI, title |-> sn_vn[1].title]} ELSE {})
    \cup (IF "gui" \in sn_done
          THEN {[out |-> sn_name_GUI,
                 title |-> IF sn_override # <<>> THEN sn_override ELSE sn_vn[1].title]}
          ELSE {})
StartsWith(s, prefix) == Len(s) >= Len(prefix) /\ SubSeq(s, 1, Len(prefix)) = prefix
InBrackets(x) == <<"[">> \o x \o <<"]">>
ItemTemplate == getTemplate(InitialTemplate)

\* the producer expected for the inputs
ReleaseProducers == IF sn_release # <<>> THEN sn_release[1].producers ELSE <<>>
DeveloperIndexes == {i \in 1..Len(ReleaseProducers) : ReleaseProducers[i].developer = TRUE}
ProducerUsed ==
    IF DeveloperIndexes # {} THEN ReleaseProducers[SetMin(DeveloperIndexes)].name
    ELSE IF Len(ReleaseProducers) > 0 THEN ReleaseProducers[1].name
    ELSE IF Len(sn_vn[1].developers) > 0 THEN sn_vn[1].developers[1]
    ELSE <<"U", "n", "k", "n", "o", "w", "n", " ", "P", "r", "o", "d", "u", "c", "e", "r">>

\* C15: the producer written in the name is the first producer of the release
\* flagged as developer; with none flagged, the first producer of the release;
\* with no release producers, the first developer of the VN; with none of
\* these, "Unknown Producer".
C15_ProducerOrder ==
    sn_task = "name" /\ sn_template \in {<<>>, ItemTemplate} =>
        \A o \in NameOutcomes :
            o.out.error = "none" /\ StartsWith(o.out.value, InBrackets(ProducerUsed))

C15_Witness ==
    /\ sn_done = {"cli", "gui", "reparse_cli", "reparse_gui"}
    /\ sn_vn = <<CandFate>>
    /\ sn_release = <<RelOfficial>>
    /\ sn_template = <<>>
    /\ StartsWith(sn_name_CLI.value, <<"[", "K", "e", "y", "]">>)
    /\ StartsWith(sn_name_GUI.value, <<"[", "K", "e", "y", "]">>)

\* the date string expected for the inputs, and its rendering: the
\* dates of the pools are labelled by hand
DateStringUsed ==
    IF sn_release # <<>> /\ sn_release[1].released # <<>> THEN sn_release[1].released
    ELSE sn_vn[1].released
CalendarDates == {<<"2", "0", "0", "4", "-", "0", "1", "-", "2", "9">>, <<"2", "0", "2", "3", "-", "1", "2", "-", "1", "5">>}
Unparseable == {<<"T", "B", "A">>, <<"2", "0", "2", "4">>, <<"2", "0", "2", "3", "-", "0", "2", "-", "3", "0">>}
ShortDate(iso) == <<iso[3], iso[4], iso[6], iso[7], iso[9], iso[10]>>
DateUsed ==
    IF DateStringUsed \in CalendarDates THEN ShortDate(DateStringUsed)
    ELSE <<"U", "n", "k", "n", "o", "w", "n">>

\* C16: the date written in the name comes from the release when the release
\* has one and from the VN otherwise; a date YYYY-MM-DD is written as YYMMDD;
\* "Unknown" is written when there is no date or the date cannot be parsed.
C16_DateFromReleaseElseVN ==
    sn_task = "name" =>
        /\ DateStringUsed \in CalendarDates \cup Unparseable \cup {<<>>}
        /\ \A o \in NameOutcomes :
            /\ sn_template = <<>> =>
                   StartsWith(o.out.value, InBrackets(ProducerUsed) \o InBrackets(DateUsed))
            /\ sn_template = ItemTemplate =>
                   StartsWith(o.out.value,
                              InBrackets(ProducerUsed) \o <<" ">> \o InBrackets(DateUsed))

C16_Witness ==
    /\ sn_done = {"cli", "gui", "reparse_cli", "reparse_gui"}
    /\ sn_vn = <<CandFate>>
    /\ sn_release = <<RelOfficial>>
    /\ sn_template = <<>>
    /\ StartsWith(sn_name_CLI.value, <<"[", "K", "e", "y", "]", "[", "2", "3", "1", "2", "1", "5", "]">>)
    /\ StartsWith(sn_name_GUI.value, <<"[", "K", "e", "y", "]", "[", "2", "3", "1", "2", "1", "5", "]">>)

\* the name of the default template, part by part
LengthPart ==
    IF sn_vn[1].length = <<>> THEN <<>>
    ELSE IF sn_vn[1].length = <<1>> THEN <<"[", "L", "1", "]">>
    ELSE IF sn_vn[1].length = <<2>> THEN <<"[", "L", "2", "]">>
    ELSE IF sn_vn[1].length = <<10>> THEN <<"[", "L", "1", "0", "]">>
    ELSE <<"[", "L", "4", "0", "]">>
FlagsPart == IF sn_flags # <<>> THEN <<" ", "{">> \o sn_flags \o <<"}">> ELSE <<>>
TagsPart == IF sn_tags # <<>> THEN <<" ", "(">> \o sn_tags \o <<")">> ELSE <<>>
DefaultNameOf(title) ==
    InBrackets(ProducerUsed) \o InBrackets(DateUsed) \o LengthPart \o <<" ">> \o title
    \o FlagsPart \o TagsPart
FateExample ==
    /\ sn_vn = <<CandFate>> /\ sn_release = <<RelFate>>
    /\ sn_flags = <<>> /\ sn_tags = <<>> /\ sn_template = <<>> /\ sn_override = <<>>
FateName == <<"[", "T", "Y", "P", "E", "-", "M", "O", "O", "N", "]", "[", "0", "4", "0", "1", "2", "9", "]", "[", "L", "4", "0", "]", " ", "F", "a", "t", "e", "/", "S", "t", "a", "y">>

\* C17: with the default template the name is "[producer][date]", the length
\* token ("[L<n>]", or nothing without a length), a space and the title, then
\* " {flags}" only when the flags are not empty and " (tags)" only when the
\* tags are not empty; TYPE-MOON (developer), 2004-01-29, length 40 and
\* "Fate/Stay" give "[TYPE-MOON][040129][L40] Fate/Stay".
C17_DefaultTemplate ==
    sn_task = "name" /\ sn_template = <<>> =>
        \A o \in NameOutcomes :
            /\ o.out = Formatted(DefaultNameOf(o.title))
            /\ FateExample => o.out.value = FateName

C17_Witness ==
    /\ sn_done = {"cli", "gui", "reparse_cli", "reparse_gui"}
    /\ FateExample
    /\ sn_name_CLI.value = FateName
    /\ sn_name_GUI.value = FateName

TitleShown == IF sn_override # <<>> THEN sn_override ELSE sn_vn[1].title
TitleOff(cfg) == \E i \in 1..Len(cfg) : cfg[i].token = title_key /\ ~cfg[i].checked

\* C27: the name made from the template of the editor holds the checked items
\* only: whenever the title item is unchecked (all items unchecked included),
\* the title does not appear in the name.
C27_UncheckedTitleAbsent ==
    (sn_task = "name" /\ "gui" \in sn_done) =>
        \A cfg \in TokenConfigs :
            (sn_template = getTemplate(cfg) /\ TitleOff(cfg)) =>
                ~contains(sn_name_GUI.value, TitleShown)
\* the same for the one configuration with the other five items checked
C27_TitleUncheckedOnly ==
    (sn_task = "name" /\ "gui" \in sn_done /\ sn_template = getTemplate(TitleUnchecked)) =>
        ~contains(sn_name_GUI.value, TitleShown)

\* the hints a name made from ProducerUsed and DateUsed should give back:
\* the producer, and the date unless none was available
HintsUsed ==
    [date |-> IF DateUsed = <<"U", "n", "k", "n", "o", "w", "n">> THEN <<>> ELSE DateUsed,
     producer |-> ProducerUsed]
HasBracket(x) == contains_char(x, "[") \/ contains_char(x, "]")
\* the hints read back from the names of the default template, each with the
\* title its name was made with
HintsReadBack ==
    IF sn_task # "name" \/ sn_template # <<>> THEN {}
    ELSE (IF "reparse_cli" \in sn_done
          THEN {[hints |-> sn_hints_CLI, title |-> sn_vn[1].title]} ELSE {})
         \cup (IF "reparse_gui" \in sn_done
               THEN {[hints |-> sn_hints_GUI,
                      title |-> IF sn_override # <<>> THEN sn_override ELSE sn_vn[1].title]}
               ELSE {})

\* C12 as stated: a name made with the default template from a producer and
\* a date that contain no brackets gives back, through parse_bracket_info,
\* the same expected_date and expected_producer.
C12_RoundTrip ==
    sn_task = "name" /\ ~HasBracket(ProducerUsed) /\ ~HasBracket(DateUsed) =>
        \A r \in HintsReadBack : r.hints = HintsUsed

\* C12 amended: the same hints come back when, besides, the producer has at
\* least 3 characters, no blank at either end and is not made of 6 or more
\* digits only, and the title, the flags and the tags contain no brackets.
C12_RoundTripOfParsableParts ==
    /\ sn_task = "name"
    /\ ~HasBracket(ProducerUsed) /\ ~HasBracket(DateUsed)
    /\ Len(ProducerUsed) >= 3
    /\ ProducerUsed[1] \notin Whitespace /\ ProducerUsed[Len(ProducerUsed)] \notin Whitespace
    /\ ~(AllDigits(ProducerUsed) /\ Len(ProducerUsed) >= 6)
    /\ ~HasBracket(sn_flags) /\ ~HasBracket(sn_tags)
    => \A r \in HintsReadBack : ~HasBracket(r.title) => r.hints = HintsUsed

C12_Witness ==
    /\ sn_done = {"cli", "gui", "reparse_cli", "reparse_gui"}
    /\ FateExample
    /\ sn_hints_CLI = [date |-> <<"0", "4", "0", "1", "2", "9">>, producer |-> <<"T", "Y", "P", "E", "-", "M", "O", "O", "N">>]
    /\ sn_hints_GUI = [date |-> <<"0", "4", "0", "1", "2", "9">>, producer |-> <<"T", "Y", "P", "E", "-", "M", "O", "O", "N">>]

\* C18: a custom template that names the unknown placeholder "bogus" makes
\* the synthesizer fail with an error that identifies "bogus"; no name is
\* returned.
C18_BogusPlaceholderFails ==
    sn_task = "name" /\ sn_template = BogusTemplate =>
        \A o \in NameOutcomes :
            /\ o.out.error = "KeyError"
            /\ o.out.key = <<"b", "o", "g", "u", "s">>
            /\ o.out.value = <<>>

(***************************************************************************)
(* Properties of the front-ends                                             *)
(***************************************************************************)
\* an answer that confirms: y in either case at the prompt of main(), the Yes
\* button of the dialog of MainWindow
Affirmative(answer) ==
    IF mode = "cli" THEN strip(answer) \in {<<"y">>, <<"Y">>} ELSE answer = "Yes"

\* C1: in either front-end os.rename is called only after the user has
\* confirmed the rename of that folder to that name, and once per confirmation.
C1_RenameOnlyAfterConfirm ==
    /\ Len(rename_log) <= 1
    /\ \A i \in 1..Len(rename_log) :
        /\ Len(confirmation) = 1
        /\ confirmation[1].old = rename_log[i].old
        /\ confirmation[1].new = rename_log[i].new
        /\ Affirmative(confirmation[1].answer)

\* a folder has been renamed by main() after the answer " Y"
C1_Witness ==
    /\ mode = "cli"
    /\ Len(rename_log) = 1
    /\ rename_log[1].ok
    /\ Len(confirmation) = 1
    /\ confirmation[1].answer = <<" ", "Y">>

\* the first search of the folder found nothing and its query has a space
ZeroWithSpace(call) ==
    call.site = "first" /\ call.found = 0 /\ \E k \in 1..Len(call.query) : call.query[k] = " "

\* the substring before the first space
BeforeFirstSpace(query) ==
    SubSeq(query, 1, SetMin({k \in 1..Len(query) : query[k] = " "}) - 1)

TrimmedPrefix(query) == strip(BeforeFirstSpace(query))

\* the front-end is about to issue the automatic retry
Retrying ==
    \/ mode = "cli" /\ cli_pc = "narrow"
    \/ mode = "gui" /\ gui_pc = "narrowing"

\* the automatic retry is the second search, follows a first search with no
\* candidates and a space in its query, carries the same hints, and its query
\* is the substring before the first space of the first query, trimmed or as it
\* is; no other search is an automatic retry
NarrowedRetry(trimmed) ==
    LET n == Len(search_log)
        shortened(query) == IF trimmed THEN TrimmedPrefix(query) ELSE BeforeFirstSpace(query)
    IN  /\ \A i \in 1..n : search_log[i].site = "narrowed" =>
            /\ i = 2
            /\ ZeroWithSpace(search_log[1])
            /\ search_log[2].query = shortened(search_log[1].query)
            /\ search_log[2].date = search_log[1].date
            /\ search_log[2].producer = search_log[1].producer
        /\ (n >= 1 /\ ZeroWithSpace(search_log[1])) =>
            IF n = 1 THEN Retrying ELSE search_log[2].site = "narrowed"
        /\ Retrying => n = 1 /\ ZeroWithSpace(search_log[1])

\* C3 as stated: after a first search with no candidates and a space in the
\* query the caller retries exactly once with the substring before the first
\* space and the same hints; without a space there is no automatic retry.
C3_RetryWithPrefix == NarrowedRetry(FALSE)

\* C3 amended: the retry is made with the substring before the first space
\* with the whitespace around it removed; the rest is as stated.
C3_RetryWithTrimmedPrefix == NarrowedRetry(TRUE)

\* the retry for the title "Foo<TAB> Bar" has been issued by MainWindow
C3_Witness ==
    /\ mode = "gui"
    /\ Len(search_log) = 2
    /\ search_log[1].query = FolderFooTabBar
    /\ search_log[2].site = "narrowed"
    /\ search_log[2].query = <<"F", "o", "o">>

\* C4: in the replacement loop an empty term aborts matching for the folder:
\* no further search is issued for it and main() goes on with the next folder.
C4_EmptyTermAborts ==
    [][(mode = "cli" /\ cli_pc = "prompt" /\ typed' = <<>> /\ cli_pc' # "prompt")
        => (idx' = idx + 1 /\ cli_pc' \in {"folder", "done"}
            /\ search_log' = search_log /\ rename_log' = rename_log)]_vars

\* the call of os.rename a step has added to the record
RenameMade == rename_log'[Len(rename_log')]
\* a failed call is told to the user and is the call for the folder in hand
FailureTold(old) == ~RenameMade.ok => RenameMade.said = "error" /\ RenameMade.old = old

\* C19: a rename that fails is reported for its folder and does not end the
\* run: main() goes on with the next folder of the list, or finishes when
\* there is none, and the GUI handler returns to an event loop that still
\* takes the user's actions.
C19_FailedRenameDoesNotAbort ==
    [][/\ (mode = "cli" /\ cli_pc = "rename") =>
              /\ FailureTold(folder)
              /\ folders' = folders /\ idx' = idx + 1
              /\ cli_pc' = IF idx < Len(folders) THEN "folder" ELSE "done"
       /\ (mode = "gui" /\ gui_pc = "rename") =>
              /\ FailureTold(current_folder_name[1])
              /\ gui_pc' = "return"
              /\ ~RenameMade.ok => renames' = renames /\ fs' = fs
       /\ (mode = "gui" /\ gui_pc = "return") =>
              /\ gui_pc' = "idle"
              /\ renames < MaxRenames => GuiReady']_vars

\* main() is at the second folder after os.rename failed for the first
C19_Witness ==
    /\ mode = "cli" /\ cli_pc = "folder" /\ idx = 2
    /\ Len(rename_log) = 1
    /\ ~rename_log[1].ok /\ rename_log[1].said = "error"
    /\ rename_log[1].old = folders[1]

\* the GUI handler returns after os.rename failed
RenameFailedGUI ==
    /\ mode = "gui" /\ gui_pc = "return"
    /\ Len(rename_log) = 1 /\ ~rename_log[1].ok /\ rename_log[1].said = "error"

\* the suggested name field shows a name made by update_suggested_name and
\* not one typed by the user
ShowsMadeName == suggested_name_edit \notin NameInputs \cup {<<>>}

\* C23: after another folder is loaded, no action (a flag or the title option
\* toggled, the tags edited, the template changed, the rename) makes or
\* applies a suggested name from the candidate or release selected for a
\* folder loaded before: a name made by update_suggested_name is always shown
\* for the folder its candidate was selected for.
C23_NoNameFromEarlierFolder ==
    /\ mode = "gui" /\ ShowsMadeName => vn_selected_for = current_folder_name
    /\ mode = "gui" /\ gui_pc \in {"confirm", "rename"} /\ frame.new_name \notin NameInputs =>
           vn_selected_for = current_folder_name

\* C26: a base directory that cannot be listed (it is not a directory, or it
\* does not exist) is reported and ends only that listing: the program is not
\* ended by an exception the code does not catch.
C26_ListingFailureHandled ==
    (mode = "cli" /\ base_dir # "dir") => cli_pc # "crashed"


\* C28: a selection typed in the CLI that is not a whole number from 1 to the
\* number of candidates (not a number, 0, too large, negative) skips the
\* folder: no candidate is selected and the run goes on with the next folder
\* or ends normally.
C28_BadSelectionSkips ==
    [][(mode = "cli" /\ cli_pc = "select"
        /\ ~(parse_int(typed').ok /\ parse_int(typed').value \in 1..Len(candidates)))
       => cli_pc' \in {"folder", "done"}]_vars


\* C29: the GUI tells "Error renaming folder" only when the folder was not
\* renamed: once os.rename has succeeded, the steps after it (the list is read
\* again, the shortcut is written, with or without a selected candidate) do
\* not lead to that report.
C29_ErrorOnlyIfNotRenamed ==
    mode = "gui" =>
        \A i \in 1..Len(rename_log) : rename_log[i].ok => rename_log[i].said = "success"

====
